---------------------------- MODULE Spec2Model ----------------------------
(***************************************************************************)
(* Model of the WhatsApp SDR conversation engine (src/unnamed/part_001):   *)
(* processIncomingMessage, processMessageWithAI, getAvailableSlots,        *)
(* scheduleGoogleCalendarEvent, calculateLeadScore, the reminder cron and  *)
(* the idle-cleanup cron, over a MongoDB store of Conversation documents.  *)
(*                                                                         *)
(* Time is counted in minutes; minute 0 is Monday 00:00.  A handler turn   *)
(* is a sequence of steps, one per awaited call that touches shared state  *)
(* (store, calendar, messaging transport); the computation between two     *)
(* awaits is local to the handler and belongs to the preceding step.       *)
(***************************************************************************)
EXTENDS Integers, Sequences, FiniteSets, TLC

VARIABLES
    env,        \* process.env: the configuration the slot functions read
    analytics,  \* the "analytics" collection and the updateDailyAnalytics calls in flight
    store,      \* Seq of Conversation documents (the "conversations" collection)
    events,     \* Seq of calendar events created by calendar.events.insert
    external,   \* busy intervals of the calendar that the engine did not create
    handlers,   \* in-flight processIncomingMessage calls
    received,   \* number of inbound messages dispatched so far
    now,        \* index into Instants: the current time
    cronDue,    \* the cron job of the current instant has not started yet
    sweep,      \* the reminder cron callback's position and work lists
    delivered,  \* reminders accepted by the transport: <<eventId, kind>> -> count
    webhook     \* POST /webhook: the response of each request, the callbacks scheduled

vars == <<env, analytics, store, events, external, handlers, received, now, cronDue, sweep, delivered, webhook>>

---------------------------------------------------------------------------
(* Bounds *)

\* inbound messages over one run
MaxMessages == 2

\* inbound messages over one run with cron tasks
MaxCronMessages == 2

\* inbound messages over one run of concurrent turns, the offer turn included
MaxRaceMessages == 3

\* concurrent processIncomingMessage calls
HandlerIds == {1, 2}

\* contact keys
Phones == {"5511", "5522"}

\* inbound messages over one run of selections, the offer turn included
MaxBookingMessages == 3

\* inbound messages in the log of a conversation handed to the scorer
MaxInbound == 11

\* inbound messages over one run against a varied calendar, the offer turn included
MaxSlotMessages == 2

\* requests to POST /webhook over one run
MaxPosts == 2

\* inbound messages over one run of decisions that keep the next_stage contract
MaxContractMessages == 3

\* inbound messages over one run under a configuration of EnvChoices
MaxEnvMessages == 2

\* inbound messages over one run of the engine of index.js
MaxIndexMessages == 4

\* inbound messages over one run with analytics, the first of them in the log
MaxAnalyticsMessages == 2

\* calls of updateDailyAnalytics over one run
MaxRuns == 3

\* deliveries, first and repeated, over one run with redelivery
MaxDeliveries == 3

\* inbound messages over one run of decisions that differ in the extracted fields
MaxFieldMessages == 2

\* callbacks registered by the requests of one run
MaxCallbacks == 2

---------------------------------------------------------------------------
(* JavaScript values *)

\* undefined / null / a missing property
Undef == "undefined"

\* a decision object without an extracted_data property
NoObject == [undefined |-> TRUE]

\* JS truthiness of a string-or-missing value
Truthy(v) == v \notin {Undef, ""}

Min(a, b) == IF a < b THEN a ELSE b

NaN == -1000000

Digits == {"0", "1", "2", "3", "4", "5", "6", "7", "8", "9"}

DigitVal(c) ==
    CASE c = "0" -> 0 [] c = "1" -> 1 [] c = "2" -> 2 [] c = "3" -> 3
      [] c = "4" -> 4 [] c = "5" -> 5 [] c = "6" -> 6 [] c = "7" -> 7
      [] c = "8" -> 8 [] c = "9" -> 9

\* String.prototype.trim on a text given as a sequence of characters
RECURSIVE TrimLeft(_)
TrimLeft(s) ==
    IF s # <<>> /\ Head(s) = " " THEN TrimLeft(Tail(s)) ELSE s

RECURSIVE TrimRight(_)
TrimRight(s) ==
    IF s # <<>> /\ s[Len(s)] = " " THEN TrimRight(SubSeq(s, 1, Len(s) - 1)) ELSE s

Trim(s) == TrimRight(TrimLeft(s))

\* the longest prefix of decimal digits, read as a number
RECURSIVE DigitPrefix(_, _, _)
DigitPrefix(s, acc, seen) ==
    IF s # <<>> /\ Head(s) \in Digits
       THEN DigitPrefix(Tail(s), acc * 10 + DigitVal(Head(s)), TRUE)
       ELSE IF seen THEN acc ELSE NaN

\* parseInt(text): leading whitespace skipped, optional sign, digit prefix
ParseInt(s) ==
    LET t == TrimLeft(s)
    IN  IF t # <<>> /\ Head(t) = "-"
           THEN LET v == DigitPrefix(Tail(t), 0, FALSE)
                IN  IF v = NaN THEN NaN ELSE 0 - v
           ELSE IF t # <<>> /\ Head(t) = "+"
                   THEN DigitPrefix(Tail(t), 0, FALSE)
                   ELSE DigitPrefix(t, 0, FALSE)

---------------------------------------------------------------------------
(* Stages *)

Stages ==
    {"INITIAL", "SOLICITAR_NOME", "SOLICITAR_FUNCAO", "SOLICITAR_EMAIL",
     "OFERECER_AGENDAMENTOS", "AGENDAMENTO_CONFIRMADO", "COMPLETED", "ABANDONED"}

getNextStage(currentStage) ==
    CASE currentStage = "INITIAL" -> "SOLICITAR_NOME"
      [] currentStage = "SOLICITAR_NOME" -> "SOLICITAR_FUNCAO"
      [] currentStage = "SOLICITAR_FUNCAO" -> "SOLICITAR_EMAIL"
      [] currentStage = "SOLICITAR_EMAIL" -> "OFERECER_AGENDAMENTOS"
      [] currentStage = "OFERECER_AGENDAMENTOS" -> "AGENDAMENTO_CONFIRMADO"
      [] currentStage = "AGENDAMENTO_CONFIRMADO" -> "COMPLETED"
      [] OTHER -> "COMPLETED"


---------------------------------------------------------------------------
(* Time and the calendar *)

MinutesPerDay == 1440

\* moment#day(): 0 = Sunday .. 6 = Saturday (minute 0 is a Monday)
DayOfWeek(t) == ((t \div MinutesPerDay) + 1) % 7

StartOfDay(t) == (t \div MinutesPerDay) * MinutesPerDay

EndOfDay(t) == StartOfDay(t) + MinutesPerDay - 1

\* process.env with no variable set: the values of the defaults at part_001:236-239
DefaultEnv ==
    [BUSINESS_HOURS_START |-> 9, BUSINESS_HOURS_END |-> 18, MEETING_DURATION_MINUTES |-> 30,
     BUFFER_MINUTES |-> 15]

\* part_001:236-239: the configuration read at each call
businessStart == env.BUSINESS_HOURS_START

businessEnd == env.BUSINESS_HOURS_END

meetingDuration == env.MEETING_DURATION_MINUTES

\* read at part_001:239 and used nowhere
bufferMinutes == env.BUFFER_MINUTES

daysAhead == 7

\* availableSlots.slice(0, 6)
MaxOffered == 6

\* the busy intervals calendar.events.list returns: every event of the calendar
BusyTimes == { [start |-> events[i].start, end |-> events[i].end] : i \in 1..Len(events) } \cup external

\* a candidate window checked against the clock only
SlotAvailableIgnoresBusy(slotStart, busy, t) ==
    slotStart > t

\* part_001:274-278, one candidate window
SlotAvailable(slotStart, busy, t) ==
    /\ ~ \E b \in busy : slotStart < b.end /\ slotStart + meetingDuration > b.start
    /\ slotStart > t

RECURSIVE MinuteLoop(_, _, _, _, _)
MinuteLoop(dayBase, hour, minute, busy, t) ==
    IF minute >= 60 THEN <<>>
    ELSE LET slotStart == dayBase + hour * 60 + minute
         IN  (IF SlotAvailable(slotStart, busy, t) THEN <<slotStart>> ELSE <<>>)
             \o MinuteLoop(dayBase, hour, minute + meetingDuration, busy, t)

RECURSIVE HourLoop(_, _, _, _)
HourLoop(dayBase, hour, busy, t) ==
    IF hour >= businessEnd THEN <<>>
    ELSE MinuteLoop(dayBase, hour, 0, busy, t) \o HourLoop(dayBase, hour + 1, busy, t)

RECURSIVE DayLoop(_, _, _)
DayLoop(day, busy, t) ==
    IF day > daysAhead THEN <<>>
    ELSE LET currentDay == t + day * MinutesPerDay
         IN  (IF DayOfWeek(currentDay) = 0 \/ DayOfWeek(currentDay) = 6
                 THEN <<>>
                 ELSE HourLoop(StartOfDay(currentDay), businessStart, busy, t))
             \o DayLoop(day + 1, busy, t)

\* getAvailableSlots(): the slots' datetimes, or [] when the calendar lookup throws
getAvailableSlots(busy, t, listOk) ==
    IF ~listOk THEN <<>>
    ELSE LET all == DayLoop(1, busy, t)
         IN  SubSeq(all, 1, Min(Len(all), MaxOffered))

\* the instants of a run: Mon 08:00, Mon 09:00, Mon 17:00, Tue 02:00, Tue 09:00 and
\* the Tuesday a week later at 02:00.  Messages arrive only at ArrivalInstants, and
\* every meeting they can book before the last instant is on the first Tuesday
\* morning, so each cron run between Tue 09:00 and the last instant finds nothing
\* and is left out.
Instants == <<480, 540, 1020, 1560, 1980, 11640>>

ArrivalInstants == {1, 3, 6}

Time == Instants[now]

\* cron.schedule('0 9,17 * * *') and cron.schedule('0 2 * * *')
CronKind(t) ==
    LET m == t % MinutesPerDay
    IN  IF m = 9 * 60 \/ m = 17 * 60 THEN "reminders"
        ELSE IF m = 2 * 60 THEN "cleanup"
        ELSE "none"

\* moment().subtract(7, 'days')
IdleDays == 7

---------------------------------------------------------------------------
(* Conversation documents *)

EmptyUserData == [name |-> Undef, function |-> Undef, email |-> Undef, leadScore |-> 0]

\* new Conversation({... appointment: {scheduled: false, status: 'PENDING'} ...})
NoAppointment ==
    [scheduled |-> FALSE, eventId |-> 0, meetLink |-> 0, scheduledDate |-> 0,
     status |-> "PENDING", remindersSent |-> [day_before |-> FALSE, hour_before |-> FALSE]]

\* a new document that starts at the stage SOLICITAR_NOME
NewConversationAtName(phoneNumber, t) ==
    [phoneNumber |-> phoneNumber,
     stage |-> "SOLICITAR_NOME",
     userData |-> EmptyUserData,
     appointment |-> NoAppointment,
     messages |-> <<>>,
     n8nData |-> [sent |-> FALSE, lastSent |-> 0],
     metadata |-> [lastActivity |-> t, conversationStarted |-> t, isActive |-> TRUE]]

NewConversation(phoneNumber, t) ==
    [phoneNumber |-> phoneNumber,
     stage |-> "INITIAL",
     userData |-> EmptyUserData,
     appointment |-> NoAppointment,
     messages |-> <<>>,
     n8nData |-> [sent |-> FALSE, lastSent |-> 0],
     metadata |-> [lastActivity |-> t, conversationStarted |-> t, isActive |-> TRUE]]

CountIncoming(messages) ==
    Cardinality({i \in 1..Len(messages) : messages[i].direction = "INCOMING"})

StageScore(stage) ==
    CASE stage = "INITIAL" -> 1
      [] stage = "SOLICITAR_NOME" -> 3
      [] stage = "SOLICITAR_FUNCAO" -> 6
      [] stage = "SOLICITAR_EMAIL" -> 10
      [] stage = "OFERECER_AGENDAMENTOS" -> 12
      [] stage = "AGENDAMENTO_CONFIRMADO" -> 15
      [] stage = "COMPLETED" -> 15
      [] OTHER -> 0

\* a scorer that sums without the caps
calculateLeadScoreUncapped(conversation) ==
    LET userData == conversation.userData
    IN  (IF Truthy(userData.name) THEN 15 ELSE 0)
        + (IF Truthy(userData.function) THEN 15 ELSE 0)
        + (IF Truthy(userData.email) THEN 20 ELSE 0)
        + CountIncoming(conversation.messages) * 2
        + StageScore(conversation.stage)
        + (IF conversation.appointment.scheduled THEN 15 ELSE 0)

\* a scorer that patches the stored score instead of recomputing it
calculateLeadScoreIncremental(conversation) ==
    Min(conversation.userData.leadScore + StageScore(conversation.stage), 100)

\* src/index.js:544-565, the scorer of the second engine
calculateLeadScoreIndex(conversation) ==
    LET userData == conversation.userData
        data == (IF Truthy(userData.name) THEN 20 ELSE 0)
                + (IF Truthy(userData.function) THEN 20 ELSE 0)
                + (IF Truthy(userData.email) THEN 20 ELSE 0)
        engagement == Min(CountIncoming(conversation.messages) * 3, 25)
        bonus == IF conversation.appointment.scheduled THEN 15 ELSE 0
    IN  Min(data + engagement + StageScore(conversation.stage) + bonus, 100)

calculateLeadScore(conversation) ==
    LET userData == conversation.userData
        data == (IF Truthy(userData.name) THEN 15 ELSE 0)
                + (IF Truthy(userData.function) THEN 15 ELSE 0)
                + (IF Truthy(userData.email) THEN 20 ELSE 0)
        engagement == Min(CountIncoming(conversation.messages) * 2, 20)
        bonus == IF conversation.appointment.scheduled THEN 15 ELSE 0
    IN  Min(data + engagement + StageScore(conversation.stage) + bonus, 100)

\* an overwrite that takes the string 'null' for a value
ExtractedValueTakesNull(old, v) == IF Truthy(v) THEN v ELSE old

\* part_001:661-668: a truthy value other than the string 'null' overwrites the field
ExtractedValue(old, v) == IF Truthy(v) /\ v # "null" THEN v ELSE old

ApplyExtracted(conversation, aiResult) ==
    IF aiResult.extracted_data = NoObject THEN conversation
    ELSE [conversation EXCEPT
            !.userData.name = ExtractedValue(@, aiResult.extracted_data.name),
            !.userData.function = ExtractedValue(@, aiResult.extracted_data.function),
            !.userData.email = ExtractedValue(@, aiResult.extracted_data.email)]

\* part_001:671-675
ApplyStage(conversation, aiResult) ==
    IF Truthy(aiResult.next_stage) /\ aiResult.next_stage # conversation.stage
       THEN [conversation EXCEPT !.stage = aiResult.next_stage]
       ELSE conversation

\* a fallback that moves the conversation on
FallbackAdvances(conversation) ==
    [intent |-> "error",
     extracted_data |-> [name |-> Undef, function |-> Undef, email |-> Undef, selected_slot |-> Undef],
     response |-> "fallback",
     next_stage |-> getNextStage(conversation.stage),
     confidence |-> 0,
     ready_for_n8n |-> FALSE,
     needs_calendar_slots |-> FALSE,
     schedule_meeting |-> FALSE]

\* processMessageWithAI's catch block
FallbackDecision(conversation) ==
    [intent |-> "error",
     extracted_data |-> [name |-> Undef, function |-> Undef, email |-> Undef, selected_slot |-> Undef],
     response |-> "fallback",
     next_stage |-> conversation.stage,
     confidence |-> 0,
     ready_for_n8n |-> FALSE,
     needs_calendar_slots |-> FALSE,
     schedule_meeting |-> FALSE]


---------------------------------------------------------------------------
(* The store *)

\* Conversation.findOne({phoneNumber, 'metadata.isActive': true}): 0 when none
FindActive(phoneNumber) ==
    LET found == {i \in 1..Len(store) :
                    store[i].phoneNumber = phoneNumber /\ store[i].metadata.isActive}
    IN  IF found = {} THEN 0 ELSE CHOOSE i \in found : \A j \in found : i <= j

\* schema validation run by save(): stage must be one of the enum's values
Valid(conversation) == conversation.stage \in Stages

\* document.save() of an existing document writes the paths modified since it was
\* loaded (or last saved) and pushes the new array elements; other paths keep what
\* the store holds
SavePaths(current, conversation, base) ==
    [current EXCEPT
        !.stage = IF conversation.stage # base.stage THEN conversation.stage ELSE @,
        !.userData.name =
            IF conversation.userData.name # base.userData.name
               THEN conversation.userData.name ELSE @,
        !.userData.function =
            IF conversation.userData.function # base.userData.function
               THEN conversation.userData.function ELSE @,
        !.userData.email =
            IF conversation.userData.email # base.userData.email
               THEN conversation.userData.email ELSE @,
        !.userData.leadScore =
            IF conversation.userData.leadScore # base.userData.leadScore
               THEN conversation.userData.leadScore ELSE @,
        !.appointment =
            IF conversation.appointment # base.appointment
               THEN conversation.appointment ELSE @,
        !.messages = @ \o SubSeq(conversation.messages, Len(base.messages) + 1,
                                 Len(conversation.messages)),
        !.n8nData = IF conversation.n8nData # base.n8nData THEN conversation.n8nData ELSE @,
        !.metadata.lastActivity =
            IF conversation.metadata.lastActivity # base.metadata.lastActivity
               THEN conversation.metadata.lastActivity ELSE @]

\* conversation.save(): an insert for a new document (docId = 0)
SaveStore(docId, conversation, base) ==
    IF docId = 0 THEN Append(store, conversation)
    ELSE [store EXCEPT ![docId] = SavePaths(@, conversation, base)]

SavedId(docId) == IF docId = 0 THEN Len(store) + 1 ELSE docId

---------------------------------------------------------------------------
(* processIncomingMessage *)

NoData == [name |-> Undef, function |-> Undef, email |-> Undef, selected_slot |-> Undef]

NoDecision ==
    [intent |-> Undef, extracted_data |-> NoObject, response |-> Undef, next_stage |-> Undef,
     confidence |-> 0, ready_for_n8n |-> FALSE, needs_calendar_slots |-> FALSE,
     schedule_meeting |-> FALSE]

IdleHandler ==
    [pc |-> "idle", phoneNumber |-> Undef, messageText |-> <<>>, messageId |-> 0,
     docId |-> 0, conversation |-> NewConversation(Undef, 0), base |-> NewConversation(Undef, 0),
     ready_for_n8n |-> FALSE, afterOffer |-> "save", finalResponse |-> Undef, selectedSlot |-> 0,
     sent |-> <<>>, sendFault |-> FALSE, saveFault |-> FALSE, saves |-> 0, result |-> "none",
     loaded |-> NewConversation(Undef, 0), created |-> {}, oracleFailed |-> FALSE,
     offered |-> <<>>, extracted_data |-> NoObject]

\* the log entry of an inbound message; its text is the one of messageId
Incoming(messageId, t) ==
    [direction |-> "INCOMING", content |-> "text", slots |-> <<>>, messageId |-> messageId,
     timestamp |-> t]

\* the log entry of a reply; slots is the numbered list the text of an offer shows
Outgoing(finalResponse, t) ==
    [direction |-> "OUTGOING", content |-> finalResponse, slots |-> <<>>, messageId |-> 0,
     timestamp |-> t]

\* part_001:684-689: the reply of an offer ends with the numbered list
OutgoingReply(finalResponse, offered, t) ==
    [Outgoing(finalResponse, t) EXCEPT !.slots = IF finalResponse = "slots" THEN offered ELSE <<>>]

\* part_001:683
WantsSlots(conversation, aiResult) ==
    aiResult.needs_calendar_slots /\ conversation.stage = "OFERECER_AGENDAMENTOS"

\* part_001:696: reading extracted_data.selected_slot of a decision that has no
\* extracted_data throws a TypeError
BookingThrows(conversation, aiResult) ==
    /\ ~aiResult.schedule_meeting
    /\ conversation.stage = "OFERECER_AGENDAMENTOS"
    /\ aiResult.extracted_data = NoObject

WantsBooking(conversation, aiResult) ==
    \/ aiResult.schedule_meeting
    \/ /\ conversation.stage = "OFERECER_AGENDAMENTOS"
       /\ aiResult.extracted_data # NoObject
       /\ Truthy(aiResult.extracted_data.selected_slot)

\* where the turn goes once the slot offer is done
AfterOffer(conversation, aiResult) ==
    IF BookingThrows(conversation, aiResult) THEN "catch"
    ELSE IF WantsBooking(conversation, aiResult) THEN "book"
    ELSE "save"

\* processMessageWithAI: the oracle's decision, or the fallback when the call or
\* JSON.parse throws
processMessageWithAI(conversation, oracleOk, decision) ==
    IF oracleOk THEN decision ELSE FallbackDecision(conversation)

\* part_001:650-680: push the inbound message, apply the decision, score
ApplyDecision(conversation, messageId, aiResult, t) ==
    LET c1 == [conversation EXCEPT !.messages = Append(@, Incoming(messageId, t))]
        c2 == ApplyExtracted(c1, aiResult)
        c3 == ApplyStage(c2, aiResult)
    IN  [c3 EXCEPT !.userData.leadScore = calculateLeadScore(c3)]

\* part_001:620-680: dispatch of a message under its messageId, findOne (or a new
\* document), the oracle call and the local updates up to the first calendar access
processIncomingMessage(i, limit, phoneNumber, messageText, messageId, findOk, oracleOk, decision) ==
    /\ handlers[i].pc = "idle"
    /\ received < limit
    /\ now \in ArrivalInstants
    /\ received' = received + 1
    /\ LET docId == FindActive(phoneNumber)
           loaded == IF docId = 0 THEN NewConversation(phoneNumber, Time) ELSE store[docId]
           aiResult == processMessageWithAI(loaded, oracleOk, decision)
           conv == ApplyDecision(loaded, messageId, aiResult, Time)
           h0 == [IdleHandler EXCEPT !.phoneNumber = phoneNumber, !.messageText = messageText,
                                     !.messageId = messageId]
           h1 == [h0 EXCEPT !.docId = docId, !.base = loaded, !.conversation = conv,
                            !.ready_for_n8n = aiResult.ready_for_n8n,
                            !.afterOffer = AfterOffer(conv, aiResult),
                            !.finalResponse = aiResult.response,
                            !.loaded = loaded, !.oracleFailed = ~oracleOk,
                            !.extracted_data = aiResult.extracted_data]
       IN  handlers' = [handlers EXCEPT ![i] =
                IF ~findOk THEN [h0 EXCEPT !.pc = "catch"]
                ELSE [h1 EXCEPT !.pc = IF WantsSlots(conv, aiResult) THEN "offer"
                                       ELSE h1.afterOffer]]
    /\ UNCHANGED <<env, analytics, store, events, external, now, cronDue, sweep, delivered, webhook>>

\* part_001:1047-1073: a message delivered for the first time, under a fresh id
Start(i, limit, phoneNumber, messageText, findOk, oracleOk, decision) ==
    processIncomingMessage(i, limit, phoneNumber, messageText, received + 1, findOk, oracleOk,
                           decision)

\* the ids of the inbound messages in the stored log of a contact's active
\* conversation
StoredIds(phoneNumber) ==
    LET d == FindActive(phoneNumber)
    IN  IF d = 0 THEN {}
        ELSE {store[d].messages[k].messageId :
                 k \in {j \in 1..Len(store[d].messages) :
                            store[d].messages[j].direction = "INCOMING"}}

\* part_001:1047-1073: the transport delivers again a message whose turn has been
\* saved; the handler is called with the same contact, text and messageId
Redeliver(i, limit, phoneNumber, messageText, findOk, oracleOk, decision) ==
    \E messageId \in StoredIds(phoneNumber) :
        processIncomingMessage(i, limit, phoneNumber, messageText, messageId, findOk, oracleOk,
                               decision)

\* part_001:684-692: the slot offer appended to the reply
Offer(i, listOk) ==
    /\ handlers[i].pc = "offer"
    /\ LET h == handlers[i]
           availableSlots == getAvailableSlots(BusyTimes, Time, listOk)
       IN  handlers' = [handlers EXCEPT ![i] =
                [h EXCEPT !.finalResponse = IF Len(availableSlots) > 0 THEN "slots" ELSE "no_slots",
                          !.offered = availableSlots,
                          !.pc = h.afterOffer]]
    /\ UNCHANGED <<env, analytics, store, events, external, received, now, cronDue, sweep, delivered, webhook>>

\* a booking step that reads the text as a 0-based index
BookListZeroBased(i, listOk) ==
    /\ handlers[i].pc = "book"
    /\ LET h == handlers[i]
           slotIndex == ParseInt(Trim(h.messageText))
           availableSlots == getAvailableSlots(BusyTimes, Time, listOk)
       IN  handlers' = [handlers EXCEPT ![i] =
                IF slotIndex >= 0 /\ slotIndex < Len(availableSlots)
                   THEN [h EXCEPT !.selectedSlot = availableSlots[slotIndex + 1], !.pc = "insert"]
                   ELSE [h EXCEPT !.finalResponse = "invalid_option", !.pc = "save"]]
    /\ UNCHANGED <<env, analytics, store, events, external, received, now, cronDue, sweep, delivered, webhook>>

\* a booking step that throws on an index out of range
BookListThrows(i, listOk) ==
    /\ handlers[i].pc = "book"
    /\ LET h == handlers[i]
           slotIndex == ParseInt(Trim(h.messageText)) - 1
           availableSlots == getAvailableSlots(BusyTimes, Time, listOk)
       IN  handlers' = [handlers EXCEPT ![i] =
                IF slotIndex >= 0 /\ slotIndex < Len(availableSlots)
                   THEN [h EXCEPT !.selectedSlot = availableSlots[slotIndex + 1], !.pc = "insert"]
                   ELSE [h EXCEPT !.pc = "catch"]]
    /\ UNCHANGED <<env, analytics, store, events, external, received, now, cronDue, sweep, delivered, webhook>>

\* part_001:699-703 and 739-741: the index parsed from the text, against the
\* regenerated slot list
BookList(i, listOk) ==
    /\ handlers[i].pc = "book"
    /\ LET h == handlers[i]
           slotIndex == ParseInt(Trim(h.messageText)) - 1
           availableSlots == getAvailableSlots(BusyTimes, Time, listOk)
       IN  handlers' = [handlers EXCEPT ![i] =
                IF slotIndex >= 0 /\ slotIndex < Len(availableSlots)
                   THEN [h EXCEPT !.selectedSlot = availableSlots[slotIndex + 1], !.pc = "insert"]
                   ELSE [h EXCEPT !.finalResponse = "invalid_option", !.pc = "save"]]
    /\ UNCHANGED <<env, analytics, store, events, external, received, now, cronDue, sweep, delivered, webhook>>

\* an appointment confirmed without the scheduled flag
BookedUnscheduled(conversation, eventId, selectedSlot) ==
    [conversation EXCEPT
        !.appointment = [scheduled |-> FALSE, eventId |-> eventId, meetLink |-> eventId,
                         scheduledDate |-> selectedSlot, status |-> "CONFIRMED",
                         remindersSent |-> [day_before |-> FALSE, hour_before |-> FALSE]],
        !.stage = "AGENDAMENTO_CONFIRMADO"]

\* a booking that leaves the stage as it is
BookedKeepsStage(conversation, eventId, selectedSlot) ==
    [conversation EXCEPT
        !.appointment = [scheduled |-> TRUE, eventId |-> eventId, meetLink |-> eventId,
                         scheduledDate |-> selectedSlot, status |-> "CONFIRMED",
                         remindersSent |-> [day_before |-> FALSE, hour_before |-> FALSE]]]

\* part_001:710-724: the appointment written after a successful insert
Booked(conversation, eventId, selectedSlot) ==
    [conversation EXCEPT
        !.appointment = [scheduled |-> TRUE, eventId |-> eventId, meetLink |-> eventId,
                         scheduledDate |-> selectedSlot, status |-> "CONFIRMED",
                         remindersSent |-> [day_before |-> FALSE, hour_before |-> FALSE]],
        !.stage = "AGENDAMENTO_CONFIRMADO"]

\* an insert whose failure still confirms the booking stage
InsertFailureConfirms(i, insertOk) ==
    /\ handlers[i].pc = "insert"
    /\ LET h == handlers[i]
           eventId == Len(events) + 1
       IN  IF insertOk
              THEN /\ events' = Append(events, [id |-> eventId, start |-> h.selectedSlot,
                                                end |-> h.selectedSlot + meetingDuration,
                                                phoneNumber |-> h.phoneNumber])
                   /\ handlers' = [handlers EXCEPT ![i] =
                        [h EXCEPT !.conversation = Booked(@, eventId, h.selectedSlot),
                                  !.finalResponse = "booked",
                                  !.created = @ \cup {eventId},
                                  !.pc = "save"]]
              ELSE /\ events' = events
                   /\ handlers' = [handlers EXCEPT ![i] =
                        [h EXCEPT !.conversation.stage = "AGENDAMENTO_CONFIRMADO",
                                  !.finalResponse = "booking_problem", !.pc = "save"]]
    /\ UNCHANGED <<env, analytics, store, external, received, now, cronDue, sweep, delivered, webhook>>

\* scheduleGoogleCalendarEvent and part_001:706-738
Insert(i, insertOk) ==
    /\ handlers[i].pc = "insert"
    /\ LET h == handlers[i]
           eventId == Len(events) + 1
       IN  IF insertOk
              THEN /\ events' = Append(events, [id |-> eventId, start |-> h.selectedSlot,
                                                end |-> h.selectedSlot + meetingDuration,
                                                phoneNumber |-> h.phoneNumber])
                   /\ handlers' = [handlers EXCEPT ![i] =
                        [h EXCEPT !.conversation = Booked(@, eventId, h.selectedSlot),
                                  !.finalResponse = "booked",
                                  !.created = @ \cup {eventId},
                                  !.pc = "save"]]
              ELSE /\ events' = events
                   /\ handlers' = [handlers EXCEPT ![i] =
                        [h EXCEPT !.finalResponse = "booking_problem", !.pc = "save"]]
    /\ UNCHANGED <<env, analytics, store, external, received, now, cronDue, sweep, delivered, webhook>>

\* a save that stores the turn's stage and fields but not its log entries
SaveWithoutLog(i, saveOk) ==
    /\ handlers[i].pc = "save"
    /\ LET h == handlers[i]
           conv == [h.conversation EXCEPT
                        !.messages = Append(@, OutgoingReply(h.finalResponse, h.offered, Time)),
                        !.metadata.lastActivity = Time]
           kept == [conv EXCEPT !.messages = h.loaded.messages]
       IN  IF saveOk /\ Valid(conv)
              THEN /\ store' = SaveStore(h.docId, kept, h.base)
                   /\ handlers' = [handlers EXCEPT ![i] =
                        [h EXCEPT !.conversation = conv, !.base = conv, !.saves = @ + 1,
                                  !.docId = SavedId(h.docId), !.pc = "send"]]
              ELSE /\ store' = store
                   /\ handlers' = [handlers EXCEPT ![i] =
                        [h EXCEPT !.conversation = conv, !.saveFault = TRUE, !.pc = "catch"]]
    /\ UNCHANGED <<env, analytics, events, external, received, now, cronDue, sweep, delivered, webhook>>

\* part_001:749-766: the reply pushed to the log, lastActivity, save()
Save(i, saveOk) ==
    /\ handlers[i].pc = "save"
    /\ LET h == handlers[i]
           conv == [h.conversation EXCEPT
                        !.messages = Append(@, OutgoingReply(h.finalResponse, h.offered, Time)),
                        !.metadata.lastActivity = Time]
       IN  IF saveOk /\ Valid(conv)
              THEN /\ store' = SaveStore(h.docId, conv, h.base)
                   /\ handlers' = [handlers EXCEPT ![i] =
                        [h EXCEPT !.conversation = conv, !.base = conv, !.saves = @ + 1,
                                  !.docId = SavedId(h.docId), !.pc = "send"]]
              ELSE /\ store' = store
                   /\ handlers' = [handlers EXCEPT ![i] =
                        [h EXCEPT !.conversation = conv, !.saveFault = TRUE, !.pc = "catch"]]
    /\ UNCHANGED <<env, analytics, events, external, received, now, cronDue, sweep, delivered, webhook>>

\* sendWhatsAppMessage: throws when the transport fails, and for a reply that is
\* undefined (no text body to post, and message.substring throws)
SendAccepted(message, transportOk) == transportOk /\ message # Undef

\* part_001:769-772
Send(i, transportOk) ==
    /\ handlers[i].pc = "send"
    /\ LET h == handlers[i]
       IN  handlers' = [handlers EXCEPT ![i] =
                IF SendAccepted(h.finalResponse, transportOk)
                   THEN [h EXCEPT !.sent = Append(@, h.finalResponse),
                                  !.pc = IF h.ready_for_n8n \/ h.conversation.appointment.scheduled
                                            THEN "n8n" ELSE "return"]
                   ELSE [h EXCEPT !.sendFault = @ \/ ~transportOk, !.pc = "catch"]]
    /\ UNCHANGED <<env, analytics, store, events, external, received, now, cronDue, sweep, delivered, webhook>>

\* a forward whose failed post is thrown into the catch block
ForwardFailureThrows(i, postOk, saveOk) ==
    /\ handlers[i].pc = "n8n"
    /\ LET h == handlers[i]
           conv == [h.conversation EXCEPT !.n8nData = [sent |-> postOk, lastSent |-> Time]]
       IN  IF postOk /\ saveOk
              THEN /\ store' = SaveStore(h.docId, conv, h.base)
                   /\ handlers' = [handlers EXCEPT ![i] =
                        [h EXCEPT !.conversation = conv, !.base = conv, !.saves = @ + 1,
                                  !.pc = "return"]]
              ELSE /\ store' = store
                   /\ handlers' = [handlers EXCEPT ![i] =
                        [h EXCEPT !.conversation = conv, !.pc = IF postOk THEN "return" ELSE "catch"]]
    /\ UNCHANGED <<env, analytics, events, external, received, now, cronDue, sweep, delivered, webhook>>

\* part_001:773-784: sendToN8N never throws; the second save's failure is caught
Forward(i, postOk, saveOk) ==
    /\ handlers[i].pc = "n8n"
    /\ LET h == handlers[i]
           conv == [h.conversation EXCEPT !.n8nData = [sent |-> postOk, lastSent |-> Time]]
       IN  IF saveOk
              THEN /\ store' = SaveStore(h.docId, conv, h.base)
                   /\ handlers' = [handlers EXCEPT ![i] =
                        [h EXCEPT !.conversation = conv, !.base = conv, !.saves = @ + 1,
                                  !.pc = "return"]]
              ELSE /\ store' = store
                   /\ handlers' = [handlers EXCEPT ![i] =
                        [h EXCEPT !.conversation = conv, !.pc = "return"]]
    /\ UNCHANGED <<env, analytics, events, external, received, now, cronDue, sweep, delivered, webhook>>

\* part_001:789-797
Return(i) ==
    /\ handlers[i].pc = "return"
    /\ handlers' = [handlers EXCEPT ![i] = [@ EXCEPT !.result = "success", !.pc = "done"]]
    /\ UNCHANGED <<env, analytics, store, events, external, received, now, cronDue, sweep, delivered, webhook>>

\* a catch block that rethrows instead of apologising
CatchRethrows(i, transportOk) ==
    /\ handlers[i].pc = "catch"
    /\ handlers' = [handlers EXCEPT ![i] = [@ EXCEPT !.result = "threw", !.pc = "done"]]
    /\ UNCHANGED <<env, analytics, store, events, external, received, now, cronDue, sweep, delivered, webhook>>

\* part_001:799-820: the apology sent from the catch block; its own failure is caught
Catch(i, transportOk) ==
    /\ handlers[i].pc = "catch"
    /\ LET h == handlers[i]
       IN  handlers' = [handlers EXCEPT ![i] =
                IF SendAccepted("apology", transportOk)
                   THEN [h EXCEPT !.sent = Append(@, "apology"), !.result = "failure", !.pc = "done"]
                   ELSE [h EXCEPT !.sendFault = TRUE, !.result = "failure", !.pc = "done"]]
    /\ UNCHANGED <<env, analytics, store, events, external, received, now, cronDue, sweep, delivered, webhook>>

\* the setImmediate callback of app.post('/webhook') ends
Finish(i) ==
    /\ handlers[i].pc = "done"
    /\ handlers' = [handlers EXCEPT ![i] = IdleHandler]
    /\ UNCHANGED <<env, analytics, store, events, external, received, now, cronDue, sweep, delivered, webhook>>

---------------------------------------------------------------------------
(* The engine of src/index.js *)

\* src/index.js:204-205: the windows of one day, every 30 minutes from 9:00 to 16:30
IndexDaySlots(dayBase) == [k \in 1..16 |-> dayBase + 9 * 60 + (k - 1) * 30]

RECURSIVE IndexDayLoop(_, _)
IndexDayLoop(day, t) ==
    IF day > daysAhead THEN <<>>
    ELSE LET currentDay == t + day * MinutesPerDay
             later(slotStart) == slotStart > t
         IN  (IF DayOfWeek(currentDay) = 0 \/ DayOfWeek(currentDay) = 6
                 THEN <<>>
                 ELSE SelectSeq(IndexDaySlots(StartOfDay(currentDay)), later))
             \o IndexDayLoop(day + 1, t)

\* src/index.js:192-225: getAvailableSlots() of index.js, which reads no calendar
getAvailableSlotsIndex(t) ==
    LET all == IndexDayLoop(1, t)
    IN  SubSeq(all, 1, Min(Len(all), MaxOffered))

\* src/index.js:292-295: the object `await result.response` yields has the
\* completion's text and no property `choices`
GeminiResponse(decision) == [text |-> decision, choices |-> Undef]

\* src/index.js:255-310: processMessageWithAI of index.js.  Line 296 reads
\* response.choices[0], which throws for a response without `choices`; the catch
\* block returns the fallback, as it does when the completion itself fails
processMessageWithAIIndex(conversation, oracleOk, decision) ==
    IF oracleOk /\ GeminiResponse(decision).choices # Undef
       THEN decision
       ELSE FallbackDecision(conversation)

\* src/index.js:227-241: the simulated scheduling returns the id 'temp_' + uuid
\* and creates no calendar event
TempEventId(messageId) == 0 - messageId

\* src/index.js:407-497: findOne (or a new document), the inbound message, the
\* oracle call, the local updates, the slot offer and the simulated booking, none
\* of which reads the calendar.  The turn forwards to n8n after every reply
\* (512-523), so it takes the forward branch whatever the decision says.
processIncomingMessageIndex(i, limit, phoneNumber, messageText, findOk, oracleOk, decision) ==
    /\ handlers[i].pc = "idle"
    /\ received < limit
    /\ now \in ArrivalInstants
    /\ received' = received + 1
    /\ LET docId == FindActive(phoneNumber)
           loaded == IF docId = 0 THEN NewConversation(phoneNumber, Time) ELSE store[docId]
           c1 == [loaded EXCEPT !.messages = Append(@, Incoming(received + 1, Time))]
           aiResult == processMessageWithAIIndex(c1, oracleOk, decision)
           c2 == ApplyStage(ApplyExtracted(c1, aiResult), aiResult)
           c3 == [c2 EXCEPT !.userData.leadScore = calculateLeadScoreIndex(c2)]
           availableSlots == getAvailableSlotsIndex(Time)
           offers == WantsSlots(c3, aiResult) /\ Len(availableSlots) > 0
           slotIndex == ParseInt(Trim(messageText)) - 1
           books == /\ WantsBooking(c3, aiResult)
                    /\ slotIndex >= 0
                    /\ slotIndex < Len(availableSlots)
           conv == IF books
                      THEN Booked(c3, TempEventId(received + 1), availableSlots[slotIndex + 1])
                      ELSE c3
           h0 == [IdleHandler EXCEPT !.phoneNumber = phoneNumber, !.messageText = messageText,
                                     !.messageId = received + 1]
           h1 == [h0 EXCEPT !.docId = docId, !.base = loaded, !.conversation = conv,
                            !.ready_for_n8n = TRUE,
                            !.finalResponse = IF books THEN "booked"
                                              ELSE IF offers THEN "slots"
                                              ELSE aiResult.response,
                            !.offered = IF offers /\ ~books THEN availableSlots ELSE <<>>,
                            !.loaded = loaded, !.oracleFailed = ~oracleOk,
                            !.extracted_data = aiResult.extracted_data]
       IN  handlers' = [handlers EXCEPT ![i] =
                IF ~findOk THEN [h0 EXCEPT !.pc = "catch"]
                ELSE [h1 EXCEPT !.pc = IF BookingThrows(c3, aiResult) THEN "catch" ELSE "save"]]
    /\ UNCHANGED <<env, analytics, store, events, external, now, cronDue, sweep, delivered, webhook>>

---------------------------------------------------------------------------
(* updateDailyAnalytics *)

\* calls of updateDailyAnalytics that may be in flight together: the call at the
\* end of a turn (part_001:787) and the hourly task (part_001:1664-1671)
RunIds == {1, 2}

\* moment().format('YYYY-MM-DD'): the day, counted from the Monday of minute 0
Today(t) == t \div MinutesPerDay

\* Math.round(a / b * 100) for counts a >= 0 and b > 0
RoundedRate(a, b) == (200 * a + b) \div (2 * b)

StageKeys ==
    {"INITIAL", "SOLICITAR_NOME", "SOLICITAR_FUNCAO", "SOLICITAR_EMAIL",
     "OFERECER_AGENDAMENTOS", "AGENDAMENTO_CONFIRMADO", "COMPLETED"}

\* part_001:876-878 and 881-884: lastActivity within the day of the run
ActiveOn(conversation, t) ==
    /\ conversation.metadata.lastActivity >= StartOfDay(t)
    /\ conversation.metadata.lastActivity <= EndOfDay(t)

\* Conversation.find(...): the documents of the day, as they are when the query runs
FindOfDay(t) == SelectSeq(store, LAMBDA c : ActiveOn(c, t))

\* Conversation.aggregate(...): the number of the day's documents at each stage
AggregateOfDay(t) ==
    [s \in Stages |-> Cardinality({d \in 1..Len(store) : ActiveOn(store[d], t) /\ store[d].stage = s})]

RECURSIVE TotalMessages(_)
TotalMessages(conversations) ==
    IF conversations = <<>> THEN 0
    ELSE Len(Head(conversations).messages) + TotalMessages(Tail(conversations))

\* a metrics object whose counters are added to those of the record
MetricsIncremented(old, conversations, t) ==
    LET started(c) == Today(c.metadata.conversationStarted) = Today(t)
        newConversations == Len(SelectSeq(conversations, started))
    IN  [old EXCEPT !.totalMessages = @ + TotalMessages(conversations),
                    !.newConversations = @ + newConversations]

\* part_001:895-917: the metrics object assigned to the record, whatever the
\* record held (old); the rates are set when the day has a new conversation
\* (<<>>: the property is not set)
Metrics(old, conversations, t) ==
    LET Count(P(_)) == Len(SelectSeq(conversations, P))
        started(c) == Today(c.metadata.conversationStarted) = Today(t)
        completed(c) == c.stage = "COMPLETED"
        abandoned(c) == c.stage = "ABANDONED"
        scheduled(c) == c.appointment.scheduled
        confirmed(c) == c.appointment.status = "CONFIRMED"
        forwarded(c) == c.n8nData.sent
        newConversations == Count(started)
    IN  [totalMessages |-> TotalMessages(conversations),
         newConversations |-> newConversations,
         completedConversations |-> Count(completed),
         abandonnedConversations |-> Count(abandoned),
         scheduledMeetings |-> Count(scheduled),
         confirmedMeetings |-> Count(confirmed),
         n8nIntegrations |-> Count(forwarded),
         conversionRate |->
             IF newConversations > 0
                THEN <<RoundedRate(Count(completed), newConversations)>>
                ELSE <<>>,
         schedulingRate |->
             IF newConversations > 0
                THEN <<RoundedRate(Count(scheduled), newConversations)>>
                ELSE <<>>]

\* new Analytics({date, metrics: {}, stageBreakdown: {}}): the schema defaults
NoMetrics ==
    [totalMessages |-> 0, newConversations |-> 0, completedConversations |-> 0,
     abandonnedConversations |-> 0, scheduledMeetings |-> 0, confirmedMeetings |-> 0,
     n8nIntegrations |-> 0, conversionRate |-> <<0>>, schedulingRate |-> <<0>>]

\* part_001:920-935: the seven keys, each set from the aggregate's group of its stage
StageBreakdown(stageCount) == [s \in StageKeys |-> stageCount[s]]

IdleRun ==
    [pc |-> "idle", today |-> 0, docId |-> 0, found |-> FALSE, conversations |-> <<>>,
     grouped |-> FALSE, stageCount |-> [s \in Stages |-> 0]]

\* an empty collection and no call in flight
IdleAnalytics == [records |-> <<>>, runs |-> [r \in RunIds |-> IdleRun], started |-> 0]

\* Analytics.findOne({date}): 0 when none
FindRecord(date) ==
    LET found == {k \in 1..Len(analytics.records) : analytics.records[k].date = date}
    IN  IF found = {} THEN 0 ELSE CHOOSE k \in found : \A j \in found : k <= j

\* part_001:866-873: the call starts, reads the date and loads or creates the record;
\* a failed findOne is caught at 939 and ends the call
AnalyticsStart(r, findOk) ==
    /\ analytics.runs[r].pc = "idle"
    /\ analytics.started < MaxRuns
    /\ analytics' = [analytics EXCEPT
            !.started = @ + 1,
            !.runs[r] = IF findOk
                           THEN [IdleRun EXCEPT !.pc = "query", !.today = Today(Time),
                                                !.docId = FindRecord(Today(Time))]
                           ELSE IdleRun]
    /\ UNCHANGED <<env, store, events, external, handlers, received, now, cronDue, sweep,
                   delivered, webhook>>

\* where a call goes once a query of Promise.all has answered
AfterQuery(run) == IF run.found /\ run.grouped THEN [run EXCEPT !.pc = "save"] ELSE run

\* part_001:876-878: Conversation.find answers; a failure rejects Promise.all
AnalyticsFind(r, queryOk) ==
    /\ analytics.runs[r].pc = "query"
    /\ ~analytics.runs[r].found
    /\ analytics' = [analytics EXCEPT
            !.runs[r] = IF queryOk
                           THEN AfterQuery([@ EXCEPT !.found = TRUE,
                                                     !.conversations = FindOfDay(Time)])
                           ELSE IdleRun]
    /\ UNCHANGED <<env, store, events, external, handlers, received, now, cronDue, sweep,
                   delivered, webhook>>

\* part_001:879-891: Conversation.aggregate answers; a failure rejects Promise.all
AnalyticsAggregate(r, queryOk) ==
    /\ analytics.runs[r].pc = "query"
    /\ ~analytics.runs[r].grouped
    /\ analytics' = [analytics EXCEPT
            !.runs[r] = IF queryOk
                           THEN AfterQuery([@ EXCEPT !.grouped = TRUE,
                                                     !.stageCount = AggregateOfDay(Time)])
                           ELSE IdleRun]
    /\ UNCHANGED <<env, store, events, external, handlers, received, now, cronDue, sweep,
                   delivered, webhook>>

\* the record a call saves: what it computed and, as history, what it read
Computed(run, old) ==
    [date |-> run.today,
     metrics |-> Metrics(old, run.conversations, Time),
     stageBreakdown |-> StageBreakdown(run.stageCount),
     source |-> [conversations |-> run.conversations, stageCount |-> run.stageCount]]

\* part_001:895-937: the record is recomputed and saved.  A new document is
\* inserted, and the unique index on date (part_001:174) rejects the insert when
\* a record of that date exists; a loaded document is updated.  A failed save is
\* caught at 939.
AnalyticsSave(r, saveOk) ==
    /\ analytics.runs[r].pc = "save"
    /\ LET run == analytics.runs[r]
           saved == IF ~saveOk THEN analytics.records
                    ELSE IF run.docId = 0
                            THEN IF FindRecord(run.today) = 0
                                    THEN Append(analytics.records, Computed(run, NoMetrics))
                                    ELSE analytics.records
                            ELSE [analytics.records EXCEPT ![run.docId] =
                                     Computed(run, analytics.records[run.docId].metrics)]
       IN  analytics' = [analytics EXCEPT !.records = saved, !.runs[r] = IdleRun]
    /\ UNCHANGED <<env, store, events, external, handlers, received, now, cronDue, sweep,
                   delivered, webhook>>

updateDailyAnalytics(r) ==
    \/ \E findOk \in BOOLEAN : AnalyticsStart(r, findOk)
    \/ \E queryOk \in BOOLEAN : AnalyticsFind(r, queryOk)
    \/ \E queryOk \in BOOLEAN : AnalyticsAggregate(r, queryOk)
    \/ \E saveOk \in BOOLEAN : AnalyticsSave(r, saveOk)

---------------------------------------------------------------------------
(* Scheduled tasks *)

IdleSweep == [pc |-> "idle", meetings |-> <<>>]

\* no request received yet
IdleWebhook == [acks |-> <<>>, scheduled |-> <<>>]

\* a find that does not filter on the remindersSent flag
RECURSIVE FindMeetingsAll(_, _, _, _)
FindMeetingsAll(i, kind, from, to) ==
    IF i > Len(store) THEN <<>>
    ELSE LET a == store[i].appointment
             hit == /\ a.scheduled
                    /\ a.status = "CONFIRMED"
                    /\ a.scheduledDate >= from
                    /\ a.scheduledDate <= to
         IN  (IF hit THEN <<[docId |-> i, eventId |-> a.eventId]>> ELSE <<>>)
             \o FindMeetingsAll(i + 1, kind, from, to)

\* the documents a Conversation.find of the reminder task returns, in store order
RECURSIVE FindMeetings(_, _, _, _)
FindMeetings(i, kind, from, to) ==
    IF i > Len(store) THEN <<>>
    ELSE LET a == store[i].appointment
             hit == /\ a.scheduled
                    /\ a.status = "CONFIRMED"
                    /\ a.scheduledDate >= from
                    /\ a.scheduledDate <= to
                    /\ ~a.remindersSent[kind]
         IN  (IF hit THEN <<[docId |-> i, eventId |-> a.eventId]>> ELSE <<>>)
             \o FindMeetings(i + 1, kind, from, to)

\* part_001:1676-1688
TomorrowMeetings ==
    LET tomorrow == StartOfDay(Time + MinutesPerDay)
    IN  FindMeetings(1, "day_before", tomorrow, EndOfDay(tomorrow))

\* part_001:1706-1715
OneHourMeetings ==
    LET oneHourFromNow == Time + 60
    IN  FindMeetings(1, "hour_before", oneHourFromNow - 5, oneHourFromNow + 5)

\* the reminder task starts; a failing find ends the task (outer catch)
ReminderStart(findOk) ==
    /\ cronDue
    /\ CronKind(Time) = "reminders"
    /\ sweep.pc = "idle"
    /\ cronDue' = FALSE
    /\ sweep' = IF findOk THEN [pc |-> "day_before", meetings |-> TomorrowMeetings]
                ELSE IdleSweep
    /\ UNCHANGED <<env, analytics, store, events, external, handlers, received, now, delivered, webhook>>

\* meeting.appointment.remindersSent[kind] = true; meeting.save()
SetReminderFlag(docId, kind) ==
    [store EXCEPT ![docId].appointment.remindersSent[kind] = TRUE]

\* a reminder loop that sets the flag whether or not the send succeeded
RemindFlagsAnyway(kind, transportOk, saveOk) ==
    /\ sweep.pc = kind
    /\ sweep.meetings # <<>>
    /\ LET meeting == Head(sweep.meetings)
           key == <<meeting.eventId, kind>>
       IN  /\ delivered' = IF transportOk
                              THEN [k \in DOMAIN delivered \cup {key} |->
                                      IF k = key
                                         THEN (IF k \in DOMAIN delivered THEN delivered[k] ELSE 0) + 1
                                         ELSE delivered[k]]
                              ELSE delivered
           /\ store' = IF saveOk THEN SetReminderFlag(meeting.docId, kind) ELSE store
    /\ sweep' = [sweep EXCEPT !.meetings = Tail(@)]
    /\ UNCHANGED <<env, analytics, events, external, handlers, received, now, cronDue, webhook>>

\* part_001:1690-1703 and 1717-1730: one iteration of a reminder loop; a failing
\* send or save is caught and the loop goes on
Remind(kind, transportOk, saveOk) ==
    /\ sweep.pc = kind
    /\ sweep.meetings # <<>>
    /\ LET meeting == Head(sweep.meetings)
           key == <<meeting.eventId, kind>>
       IN  /\ delivered' = IF transportOk
                              THEN [k \in DOMAIN delivered \cup {key} |->
                                      IF k = key
                                         THEN (IF k \in DOMAIN delivered THEN delivered[k] ELSE 0) + 1
                                         ELSE delivered[k]]
                              ELSE delivered
           /\ store' = IF transportOk /\ saveOk THEN SetReminderFlag(meeting.docId, kind)
                       ELSE store
    /\ sweep' = [sweep EXCEPT !.meetings = Tail(@)]
    /\ UNCHANGED <<env, analytics, events, external, handlers, received, now, cronDue, webhook>>

\* the day-before loop is over: the hour-before find
ReminderNext(findOk) ==
    /\ sweep.pc = "day_before"
    /\ sweep.meetings = <<>>
    /\ sweep' = IF findOk THEN [pc |-> "hour_before", meetings |-> OneHourMeetings]
                ELSE IdleSweep
    /\ UNCHANGED <<env, analytics, store, events, external, handlers, received, now, cronDue, delivered, webhook>>

ReminderEnd ==
    /\ sweep.pc = "hour_before"
    /\ sweep.meetings = <<>>
    /\ sweep' = IdleSweep
    /\ UNCHANGED <<env, analytics, store, events, external, handlers, received, now, cronDue, delivered, webhook>>

\* a filter without the stage exclusion
IdleAnyStage(conversation, t) ==
    /\ conversation.metadata.isActive
    /\ conversation.metadata.lastActivity < t - IdleDays * MinutesPerDay

\* part_001:1743-1755, the filter of updateMany
Idle(conversation, t) ==
    /\ conversation.metadata.isActive
    /\ conversation.metadata.lastActivity < t - IdleDays * MinutesPerDay
    /\ conversation.stage \notin {"COMPLETED", "ABANDONED", "AGENDAMENTO_CONFIRMADO"}

\* part_001:1739-1761
Cleanup(updateOk) ==
    /\ cronDue
    /\ CronKind(Time) = "cleanup"
    /\ cronDue' = FALSE
    /\ store' = IF updateOk
                   THEN [i \in 1..Len(store) |->
                           IF Idle(store[i], Time)
                              THEN [store[i] EXCEPT !.stage = "ABANDONED",
                                                    !.metadata.isActive = FALSE]
                              ELSE store[i]]
                   ELSE store
    /\ UNCHANGED <<env, analytics, events, external, handlers, received, now, sweep, delivered, webhook>>

\* time passes to the next instant; a turn and a cron run take far less than the
\* gap between two instants
Tick ==
    /\ ~cronDue
    /\ sweep.pc = "idle"
    /\ \A i \in HandlerIds : handlers[i].pc = "idle"
    /\ \A r \in RunIds : analytics.runs[r].pc = "idle"
    /\ now < Len(Instants)
    /\ now' = now + 1
    /\ cronDue' = (CronKind(Instants[now + 1]) # "none")
    /\ UNCHANGED <<env, analytics, store, events, external, handlers, received, sweep, delivered, webhook>>

---------------------------------------------------------------------------
(* Inputs *)

\* inbound texts, as character sequences
Texts == {<<"o", "i">>, <<" ", "1">>, <<"9">>}

DataChoices == {NoData, [NoData EXCEPT !.name = "Ana"]}

NextStageChoices == Stages \cup {Undef, "BOGUS"}

\* decisions that differ in next_stage and extracted_data
StageDecisions ==
    [intent : {"providing_info"}, extracted_data : DataChoices, response : {"ai"},
     next_stage : NextStageChoices, confidence : {1}, ready_for_n8n : {FALSE},
     needs_calendar_slots : {FALSE}, schedule_meeting : {FALSE}]

\* decisions that follow the prompt's next_stage contract and differ in the flags
FlagDecisions(stage) ==
    [intent : {"scheduling"}, extracted_data : {NoData, [NoData EXCEPT !.selected_slot = "1"]},
     response : {"ai"}, next_stage : {stage, getNextStage(stage)}, confidence : {1},
     ready_for_n8n : BOOLEAN, needs_calendar_slots : BOOLEAN, schedule_meeting : BOOLEAN]

\* decision objects with properties missing
PartialDecisions(stage) ==
    [intent : {"other"}, extracted_data : {NoObject, NoData}, response : {Undef},
     next_stage : {Undef, stage}, confidence : {1}, ready_for_n8n : {FALSE},
     needs_calendar_slots : BOOLEAN, schedule_meeting : {FALSE}]

Decisions(stage) == StageDecisions \cup FlagDecisions(stage) \cup PartialDecisions(stage)

\* decisions of a contact who chats, is offered slots or selects one
BookingDecisions(stage) ==
    [intent : {"selecting_slot"}, extracted_data : {NoData}, response : {"ai"},
     next_stage : {stage, getNextStage(stage), "OFERECER_AGENDAMENTOS"}, confidence : {1},
     ready_for_n8n : {FALSE}, needs_calendar_slots : BOOLEAN, schedule_meeting : BOOLEAN]

\* decisions that keep the stage and may offer slots or book
RaceDecisions(stage) ==
    [intent : {"selecting_slot"}, extracted_data : {NoData}, response : {"ai"},
     next_stage : {stage}, confidence : {1}, ready_for_n8n : {FALSE},
     needs_calendar_slots : BOOLEAN, schedule_meeting : BOOLEAN]

\* decisions whose next_stage is the current stage or its successor, as the prompt
\* asks (part_001:417-437), with or without an offer and a booking
ContractDecisions(stage) ==
    [intent : {"selecting_slot"}, extracted_data : {NoData}, response : {"ai"},
     next_stage : {stage, getNextStage(stage)}, confidence : {1}, ready_for_n8n : {FALSE},
     needs_calendar_slots : BOOLEAN, schedule_meeting : BOOLEAN]

\* decisions that differ in the extracted fields: missing or null, empty, the
\* string 'null', a value; and a decision without extracted_data; with or
\* without an offer and a booking
FieldDecisions(stage) ==
    [intent : {"providing_info"},
     extracted_data : [name : {Undef, "", "null", "Bia"}, function : {Undef, "CTO"},
                       email : {Undef, "bia@x.io"}, selected_slot : {Undef}]
                      \cup {NoObject},
     response : {"ai"}, next_stage : {stage, "OFERECER_AGENDAMENTOS"}, confidence : {1},
     ready_for_n8n : {FALSE}, needs_calendar_slots : BOOLEAN, schedule_meeting : BOOLEAN]

BookingTexts == {<<"1">>}

\* answers to a slot offer: in range, zero, negative, above the list, not a number
SelectionTexts == {<<"2">>, <<" ", "1">>, <<"0">>, <<"-", "3">>, <<"7">>, <<"o", "i">>}

\* decisions of a contact who answers a slot offer
SelectionDecisions(stage) ==
    [intent : {"selecting_slot"},
     extracted_data : {NoData, [NoData EXCEPT !.selected_slot = "2"]}, response : {"ai"},
     next_stage : {stage}, confidence : {1}, ready_for_n8n : {FALSE},
     needs_calendar_slots : BOOLEAN, schedule_meeting : BOOLEAN]

\* the decision of a turn that moves a new contact to the slot offer
OfferDecision ==
    [intent |-> "scheduling", extracted_data |-> NoData, response |-> "ai",
     next_stage |-> "OFERECER_AGENDAMENTOS", confidence |-> 1, ready_for_n8n |-> FALSE,
     needs_calendar_slots |-> TRUE, schedule_meeting |-> FALSE]

\* the calendar's busy intervals at the start of a run: Tuesday 9:00 to 10:00
InitialBusy == {[start |-> MinutesPerDay + 9 * 60, end |-> MinutesPerDay + 10 * 60]}

\* the list offered on Monday 08:00
FirstOffer == getAvailableSlots(InitialBusy, Instants[1], TRUE)

\* the document that turn leaves in the store: the contact has been offered slots
OfferedConversation ==
    LET c == ApplyDecision(NewConversation("5511", Instants[1]), 1, OfferDecision, Instants[1])
    IN  [c EXCEPT !.messages = Append(@, OutgoingReply("slots", FirstOffer, Instants[1]))]

CurrentStage(phoneNumber) ==
    IF FindActive(phoneNumber) = 0 THEN "INITIAL" ELSE store[FindActive(phoneNumber)].stage

---------------------------------------------------------------------------
(* The system *)

\* no conversation yet, Monday 08:00, a calendar busy on Tuesday from 9:00 to 10:00
Init ==
    /\ env = DefaultEnv
    /\ analytics = IdleAnalytics
    /\ store = <<>>
    /\ events = <<>>
    /\ external = InitialBusy
    /\ handlers = [i \in HandlerIds |-> IdleHandler]
    /\ received = 0
    /\ now = 1
    /\ cronDue = FALSE
    /\ sweep = IdleSweep
    /\ delivered = <<>>
    /\ webhook = IdleWebhook

InputTexts(inputs) ==
    CASE inputs = "dialogue" -> Texts
      [] inputs = "selection" -> SelectionTexts
      [] OTHER -> BookingTexts

InputDecisions(inputs, stage) ==
    CASE inputs = "dialogue" -> Decisions(stage)
      [] inputs = "booking" -> BookingDecisions(stage)
      [] inputs = "race" -> RaceDecisions(stage)
      [] inputs = "selection" -> SelectionDecisions(stage)
      [] inputs = "contract" -> ContractDecisions(stage)
      [] inputs = "fields" -> FieldDecisions(stage)

\* a message of one of the contacts is dispatched to handler i
Receive(i, limit, inputs, contacts) ==
    \E p \in contacts, text \in InputTexts(inputs), findOk \in BOOLEAN :
       \/ \E d \in InputDecisions(inputs, CurrentStage(p)) :
             Start(i, limit, p, text, findOk, TRUE, d)
       \/ Start(i, limit, p, text, findOk, FALSE, NoDecision)

Turn(i) ==
    \/ \E listOk \in BOOLEAN : Offer(i, listOk)
    \/ \E listOk \in BOOLEAN : BookList(i, listOk)
    \/ \E insertOk \in BOOLEAN : Insert(i, insertOk)
    \/ \E saveOk \in BOOLEAN : Save(i, saveOk)
    \/ \E transportOk \in BOOLEAN : Send(i, transportOk)
    \/ \E postOk \in BOOLEAN, saveOk \in BOOLEAN : Forward(i, postOk, saveOk)
    \/ Return(i)
    \/ \E transportOk \in BOOLEAN : Catch(i, transportOk)
    \/ Finish(i)

Reminders ==
    \/ \E findOk \in BOOLEAN : ReminderStart(findOk)
    \/ \E kind \in {"day_before", "hour_before"}, transportOk \in BOOLEAN, saveOk \in BOOLEAN :
          Remind(kind, transportOk, saveOk)
    \/ \E findOk \in BOOLEAN : ReminderNext(findOk)
    \/ ReminderEnd

\* one contact's dialogue, a turn at a time, over every decision of Decisions
Next ==
    \/ Receive(1, MaxMessages, "dialogue", {"5511"})
    \/ Turn(1)

Spec == Init /\ [][Next]_vars

\* concurrent turns of one contact, over BookingDecisions
NextRace ==
    \E i \in HandlerIds : Receive(i, MaxRaceMessages, "race", Phones) \/ Turn(i)

\* contact 5511 has been offered slots (a state SpecCron reaches), 5522 is new
InitRace ==
    /\ env = DefaultEnv
    /\ analytics = IdleAnalytics
    /\ store = <<OfferedConversation>>
    /\ events = <<>>
    /\ external = InitialBusy
    /\ handlers = [i \in HandlerIds |-> IdleHandler]
    /\ received = 1
    /\ now = 1
    /\ cronDue = FALSE
    /\ sweep = IdleSweep
    /\ delivered = <<>>
    /\ webhook = IdleWebhook

SpecRace == InitRace /\ [][NextRace]_vars

\* the decision of a turn that books and keeps the stage otherwise
BookDecision(stage) ==
    [intent |-> "selecting_slot", extracted_data |-> NoData, response |-> "ai",
     next_stage |-> stage, confidence |-> 1, ready_for_n8n |-> FALSE,
     needs_calendar_slots |-> FALSE, schedule_meeting |-> TRUE]

\* the document a successful booking turn leaves in the store
BookedTurn(conversation, messageId, eventId, selectedSlot) ==
    LET t == Instants[1]
        c1 == ApplyDecision(conversation, messageId, BookDecision(conversation.stage), t)
        c2 == Booked(c1, eventId, selectedSlot)
    IN  [c2 EXCEPT !.messages = Append(@, Outgoing("booked", t)),
                   !.n8nData = [sent |-> TRUE, lastSent |-> t]]

\* the first slot offered on Monday 08:00: Tuesday 10:00
FirstSlot == getAvailableSlots(external, Instants[1], TRUE)[1]

\* the document a successful turn without offer or booking leaves in the store
ChatTurn(conversation, messageId) ==
    LET t == Instants[1]
        d == [BookDecision(conversation.stage) EXCEPT !.schedule_meeting = FALSE]
        c == ApplyDecision(conversation, messageId, d, t)
    IN  [c EXCEPT !.messages = Append(@, Outgoing("ai", t))]

\* contact 5511 has booked the first slot; contact 5522 has booked it too in a
\* racing turn, or has only written a first message (states SpecRace reaches);
\* the reminder and cleanup tasks then run with no message arriving
InitReminders ==
    /\ env = DefaultEnv
    /\ analytics = IdleAnalytics
    /\ external = InitialBusy
    /\ \/ /\ store = <<BookedTurn(OfferedConversation, 2, 1, FirstSlot),
                       BookedTurn(NewConversation("5522", Instants[1]), 3, 2, FirstSlot)>>
          /\ events = <<[id |-> 1, start |-> FirstSlot, end |-> FirstSlot + meetingDuration,
                         phoneNumber |-> "5511"],
                        [id |-> 2, start |-> FirstSlot, end |-> FirstSlot + meetingDuration,
                         phoneNumber |-> "5522"]>>
       \/ /\ store = <<BookedTurn(OfferedConversation, 2, 1, FirstSlot),
                       ChatTurn(NewConversation("5522", Instants[1]), 3)>>
          /\ events = <<[id |-> 1, start |-> FirstSlot, end |-> FirstSlot + meetingDuration,
                         phoneNumber |-> "5511"]>>
    /\ handlers = [i \in HandlerIds |-> IdleHandler]
    /\ received = 3
    /\ now = 1
    /\ cronDue = FALSE
    /\ sweep = IdleSweep
    /\ delivered = <<>>
    /\ webhook = IdleWebhook

NextReminders ==
    \/ Reminders
    \/ \E updateOk \in BOOLEAN : Cleanup(updateOk)
    \/ Tick

SpecReminders == InitReminders /\ [][NextReminders]_vars

\* the turns of a contact who has been offered slots, over SelectionTexts
NextBooking ==
    \/ Receive(1, MaxBookingMessages, "selection", {"5511"})
    \/ Turn(1)

SpecBooking == InitRace /\ [][NextBooking]_vars

\* the conversations handed to the scorer: every combination of collected
\* fields, stage (also one outside the enum), appointment, log and stored score
ScoreStates ==
    {[NewConversation("5511", 0) EXCEPT
         !.userData = [name |-> n, function |-> f, email |-> e, leadScore |-> old],
         !.stage = st,
         !.appointment.scheduled = sch,
         !.messages = [k \in 1..(inb + out) |->
                          IF k <= inb THEN Incoming(k, 0) ELSE Outgoing("ai", 0)]] :
       n \in {Undef, "", "Ana"}, f \in {Undef, "CTO"}, e \in {Undef, "ana@x.io"},
       old \in {0, 37}, st \in Stages \cup {"BOGUS"}, sch \in BOOLEAN,
       inb \in 0..MaxInbound, out \in 0..1}

InitScore ==
    /\ env = DefaultEnv
    /\ analytics = IdleAnalytics
    /\ store \in {<<c>> : c \in ScoreStates}
    /\ events = <<>>
    /\ external = {}
    /\ handlers = [i \in HandlerIds |-> IdleHandler]
    /\ received = 0
    /\ now = 1
    /\ cronDue = FALSE
    /\ sweep = IdleSweep
    /\ delivered = <<>>
    /\ webhook = IdleWebhook

\* part_001:678: conversation.userData.leadScore = calculateLeadScore(conversation)
Rescore ==
    /\ store' = [store EXCEPT ![1].userData.leadScore = calculateLeadScore(store[1])]
    /\ UNCHANGED <<env, analytics, events, external, handlers, received, now, cronDue, sweep, delivered, webhook>>

\* src/index.js:456, the same assignment in the second engine
RescoreIndex ==
    /\ store' = [store EXCEPT ![1].userData.leadScore = calculateLeadScoreIndex(store[1])]
    /\ UNCHANGED <<env, analytics, events, external, handlers, received, now, cronDue, sweep, delivered, webhook>>

NextScore == Rescore \/ RescoreIndex

\* the scorers applied to every conversation of ScoreStates
SpecScore == InitScore /\ [][NextScore]_vars

\* events the calendar may hold besides those the program inserts: Tuesday 9:00
\* to 10:00, Tuesday 10:00 to 10:30, Tuesday 10:15 to 10:45, Tuesday 9:00 to
\* Friday 18:00, and the Monday after from 9:00 to 9:30
BusyChoices ==
    {[start |-> MinutesPerDay + 9 * 60, end |-> MinutesPerDay + 10 * 60],
     [start |-> MinutesPerDay + 10 * 60, end |-> MinutesPerDay + 10 * 60 + 30],
     [start |-> MinutesPerDay + 10 * 60 + 15, end |-> MinutesPerDay + 10 * 60 + 45],
     [start |-> MinutesPerDay + 9 * 60, end |-> 4 * MinutesPerDay + 18 * 60],
     [start |-> 7 * MinutesPerDay + 9 * 60, end |-> 7 * MinutesPerDay + 9 * 60 + 30]}

\* contact 5511 has been offered slots; the calendar holds any of BusyChoices and
\* the next message arrives at any of the arrival instants
InitSlots ==
    /\ env = DefaultEnv
    /\ analytics = IdleAnalytics
    /\ store = <<OfferedConversation>>
    /\ events = <<>>
    /\ external \in SUBSET BusyChoices
    /\ handlers = [i \in HandlerIds |-> IdleHandler]
    /\ received = 1
    /\ now \in ArrivalInstants
    /\ cronDue = FALSE
    /\ sweep = IdleSweep
    /\ delivered = <<>>
    /\ webhook = IdleWebhook

\* the turns of that contact, over RaceDecisions
NextSlots ==
    \/ Receive(1, MaxSlotMessages, "race", {"5511"})
    \/ Turn(1)

SpecSlots == InitSlots /\ [][NextSlots]_vars

\* configurations of part_001:236-239: durations that divide the hour (20, 30, 60)
\* and that do not (45), with and without a buffer, over two business days
EnvChoices ==
    [BUSINESS_HOURS_START : {9}, BUSINESS_HOURS_END : {12, 18},
     MEETING_DURATION_MINUTES : {20, 30, 45, 60}, BUFFER_MINUTES : {0, 15}]

\* calendars of the configured runs: empty, Tuesday 9:00 to 10:00, Tuesday 9:00
\* to 16:00
EnvBusy ==
    {{}, InitialBusy, {[start |-> MinutesPerDay + 9 * 60, end |-> MinutesPerDay + 16 * 60]}}

\* the contact was offered slots on Monday 08:00 under one of the configurations
InitEnv ==
    /\ env \in EnvChoices
    /\ analytics = IdleAnalytics
    /\ store = <<OfferedConversation>>
    /\ events = <<>>
    /\ external \in EnvBusy
    /\ handlers = [i \in HandlerIds |-> IdleHandler]
    /\ received = 1
    /\ now = 1
    /\ cronDue = FALSE
    /\ sweep = IdleSweep
    /\ delivered = <<>>
    /\ webhook = IdleWebhook

\* the turns of that contact, over RaceDecisions
NextEnv ==
    \/ Receive(1, MaxEnvMessages, "race", {"5511"})
    \/ Turn(1)

SpecEnv == InitEnv /\ [][NextEnv]_vars

\* a turn of the contact who was offered slots, calls of updateDailyAnalytics that
\* may overlap it and each other, and the passing of time
NextAnalytics ==
    \/ Receive(1, MaxAnalyticsMessages, "race", {"5511"})
    \/ Turn(1)
    \/ \E r \in RunIds : updateDailyAnalytics(r)
    \/ Tick

SpecAnalytics == InitRace /\ [][NextAnalytics]_vars

\* completions that are well formed and name the canonical successor as next_stage
SuccessorDecisions(stage) ==
    [intent : {"providing_info"}, extracted_data : {NoData}, response : {"ai"},
     next_stage : {getNextStage(stage)}, confidence : {1}, ready_for_n8n : {FALSE},
     needs_calendar_slots : BOOLEAN, schedule_meeting : {FALSE}]

\* a message of one of the contacts is dispatched to handler i of index.js
ReceiveIndex(i, limit, contacts) ==
    \E p \in contacts, text \in BookingTexts, findOk \in BOOLEAN :
       \/ \E d \in SuccessorDecisions(CurrentStage(p)) :
             processIncomingMessageIndex(i, limit, p, text, findOk, TRUE, d)
       \/ processIncomingMessageIndex(i, limit, p, text, findOk, FALSE, NoDecision)

\* src/index.js:500-545: the rest of the turn, the same steps as in part_001
TurnIndex(i) ==
    \/ \E saveOk \in BOOLEAN : Save(i, saveOk)
    \/ \E transportOk \in BOOLEAN : Send(i, transportOk)
    \/ \E postOk \in BOOLEAN, saveOk \in BOOLEAN : Forward(i, postOk, saveOk)
    \/ Return(i)
    \/ \E transportOk \in BOOLEAN : Catch(i, transportOk)
    \/ Finish(i)

\* one contact's dialogue with the engine of index.js, a turn at a time
NextIndex ==
    \/ ReceiveIndex(1, MaxIndexMessages, {"5511"})
    \/ TurnIndex(1)

SpecIndex == Init /\ [][NextIndex]_vars

\* one contact's turns over FieldDecisions
NextFields ==
    \/ Receive(1, MaxFieldMessages, "fields", {"5511"})
    \/ Turn(1)

SpecFields == Init /\ [][NextFields]_vars

\* turns, the cron tasks and the passing of time, over ContractDecisions
NextContract ==
    \/ Receive(1, MaxContractMessages, "contract", {"5511"})
    \/ Turn(1)
    \/ Reminders
    \/ \E updateOk \in BOOLEAN : Cleanup(updateOk)
    \/ Tick

\* one message has been received: it failed at findOne and left no conversation,
\* or it took contact 5511 to the slot offer
InitContract ==
    /\ env = DefaultEnv
    /\ analytics = IdleAnalytics
    /\ store \in {<<>>, <<OfferedConversation>>}
    /\ events = <<>>
    /\ external = InitialBusy
    /\ handlers = [i \in HandlerIds |-> IdleHandler]
    /\ received = 1
    /\ now = 1
    /\ cronDue = FALSE
    /\ sweep = IdleSweep
    /\ delivered = <<>>
    /\ webhook = IdleWebhook

SpecContract == InitContract /\ [][NextContract]_vars

\* a message of one of the contacts is delivered a second time to handler i
ReceiveAgain(i, limit, inputs, contacts) ==
    \E p \in contacts, text \in InputTexts(inputs), findOk \in BOOLEAN :
       \/ \E d \in InputDecisions(inputs, CurrentStage(p)) :
             Redeliver(i, limit, p, text, findOk, TRUE, d)
       \/ Redeliver(i, limit, p, text, findOk, FALSE, NoDecision)

\* one contact's turns over ContractDecisions, each message delivered once or more
NextRedelivery ==
    \/ Receive(1, MaxDeliveries, "contract", {"5511"})
    \/ ReceiveAgain(1, MaxDeliveries, "contract", {"5511"})
    \/ Turn(1)

SpecRedelivery == InitContract /\ [][NextRedelivery]_vars

\* turns, the cron tasks and the passing of time, over BookingDecisions
NextCron ==
    \/ Receive(1, MaxCronMessages, "booking", {"5511"})
    \/ Turn(1)
    \/ Reminders
    \/ \E updateOk \in BOOLEAN : Cleanup(updateOk)
    \/ Tick

SpecCron == Init /\ [][NextCron]_vars

---------------------------------------------------------------------------
(* app.post('/webhook') *)

\* the messages of a request body, entries and changes flattened
\* (hasText: the message carries a text object)
TextMessage(from, text) == [type |-> "text", from |-> from, hasText |-> TRUE, text |-> text]

ImageMessage(from) == [type |-> "image", from |-> from, hasText |-> FALSE, text |-> <<>>]

\* request bodies of one contact: no entry (rejected by the validator), one
\* text, one image, two texts, an image before a text, a text message with no
\* text object before a text
WebhookBodies ==
    {<<>>,
     <<TextMessage("5511", <<"1">>)>>,
     <<ImageMessage("5511")>>,
     <<TextMessage("5511", <<"1">>), TextMessage("5511", <<"1">>)>>,
     <<ImageMessage("5511"), TextMessage("5511", <<"1">>)>>,
     <<[TextMessage("5511", <<>>) EXCEPT !.hasText = FALSE], TextMessage("5511", <<"1">>)>>}

\* part_001:1038-1075: the callbacks the loop of request r registers with
\* setImmediate, in order; message.text.body of a message without text throws
\* and ends the loop
RECURSIVE Scheduled(_, _)
Scheduled(messages, r) ==
    IF messages = <<>> THEN <<>>
    ELSE LET message == Head(messages)
         IN  IF message.type # "text" THEN Scheduled(Tail(messages), r)
             ELSE IF ~message.hasText THEN <<>>
             ELSE <<[request |-> r, from |-> message.from, text |-> message.text]>>
                  \o Scheduled(Tail(messages), r)

\* a handler that registers the callbacks and answers 500 without having
\* acknowledged
PostUnacknowledged(messages) ==
    /\ Len(webhook.acks) < MaxPosts
    /\ Len(webhook.scheduled) + Len(Scheduled(messages, 0)) <= MaxCallbacks
    /\ webhook' =
          IF messages = <<>>
             THEN [webhook EXCEPT !.acks = Append(@, 400)]
             ELSE [acks |-> Append(webhook.acks, 500),
                   scheduled |-> webhook.scheduled
                                   \o Scheduled(messages, Len(webhook.acks) + 1)]
    /\ UNCHANGED <<env, analytics, store, events, external, handlers, received, now, cronDue, sweep, delivered>>

\* part_001:1022-1082: the handler has no await, so validation, the response and
\* the loop run in one step. An empty entry list is answered 400; otherwise 200
\* is sent first (1035) and the loop registers the callbacks; the catch block's
\* res.status(500) after a throw in the loop comes after the headers are sent and
\* changes nothing of the response
Post(messages) ==
    /\ Len(webhook.acks) < MaxPosts
    /\ Len(webhook.scheduled) + Len(Scheduled(messages, 0)) <= MaxCallbacks
    /\ webhook' =
          IF messages = <<>>
             THEN [webhook EXCEPT !.acks = Append(@, 400)]
             ELSE [acks |-> Append(webhook.acks, 200),
                   scheduled |-> webhook.scheduled
                                   \o Scheduled(messages, Len(webhook.acks) + 1)]
    /\ UNCHANGED <<env, analytics, store, events, external, handlers, received, now, cronDue, sweep, delivered>>

\* the decisions of the turns a request starts: a reply that keeps the stage, or
\* a move to the slot offer with an offer and a booking in the same turn
WebhookDecisions(stage) ==
    {[BookDecision(stage) EXCEPT !.schedule_meeting = FALSE],
     [OfferDecision EXCEPT !.schedule_meeting = TRUE]}

\* part_001:1063-1073: the next registered callback runs and calls
\* processIncomingMessage
Dispatch(i) ==
    /\ received < Len(webhook.scheduled)
    /\ LET m == webhook.scheduled[received + 1]
       IN  \E findOk \in BOOLEAN :
              \/ \E d \in WebhookDecisions(CurrentStage(m.from)) :
                    Start(i, Len(webhook.scheduled), m.from, m.text, findOk, TRUE, d)
              \/ Start(i, Len(webhook.scheduled), m.from, m.text, findOk, FALSE, NoDecision)

\* requests, callbacks and the turns they start
NextWebhook ==
    \/ \E messages \in WebhookBodies : Post(messages)
    \/ \E i \in HandlerIds : Dispatch(i) \/ Turn(i)

SpecWebhook == Init /\ [][NextWebhook]_vars

---------------------------------------------------------------------------
(* Properties *)

\* the stage that follows a stage in the canonical order; the terminal stages
\* have none
CanonicalSuccessor(stage) ==
    IF stage \in {"COMPLETED", "ABANDONED"} THEN stage ELSE getNextStage(stage)

\* the position of a stage in the canonical order, ABANDONED last
StageRank(stage) ==
    CASE stage = "INITIAL" -> 0
      [] stage = "SOLICITAR_NOME" -> 1
      [] stage = "SOLICITAR_FUNCAO" -> 2
      [] stage = "SOLICITAR_EMAIL" -> 3
      [] stage = "OFERECER_AGENDAMENTOS" -> 4
      [] stage = "AGENDAMENTO_CONFIRMADO" -> 5
      [] stage = "COMPLETED" -> 6
      [] OTHER -> 7

\* the turns that have returned and not yet been recycled
Returned == {i \in HandlerIds : handlers[i].pc = "done"}

\* C1: a turn that returns successfully leaves the conversation at the stage it
\* loaded or at that stage's canonical successor, whatever next_stage the oracle
\* gave and whether or not the turn booked a slot.
C1_StageAdvancesOneStep ==
    \A i \in Returned :
        handlers[i].result = "success" =>
            handlers[i].conversation.stage \in
                {handlers[i].loaded.stage, CanonicalSuccessor(handlers[i].loaded.stage)}

\* the turns that loaded stored document d before it had an appointment, at the
\* slot offer, took the booking path and returned successfully (so each of them
\* saved the conversation)
RacingSelections(d) ==
    {i \in Returned : /\ handlers[i].docId = d
                      /\ handlers[i].loaded.stage = "OFERECER_AGENDAMENTOS"
                      /\ ~handlers[i].loaded.appointment.scheduled
                      /\ handlers[i].loaded.messages # <<>>
                      /\ handlers[i].afterOffer = "book"
                      /\ handlers[i].result = "success"}

\* C2: two concurrent turns of one conversation that both carry the selection "1"
\* against the same offer create one calendar event between them, not two.
C2_OneEventPerRace ==
    \A d \in 1..Len(store) :
        Cardinality(RacingSelections(d)) = 2 =>
            Cardinality(UNION {handlers[i].created : i \in RacingSelections(d)}) <= 1

\* C3: a turn that loads a conversation whose appointment is already scheduled
\* creates no calendar event and leaves the appointment's event, link and date as
\* they were.
C3_NoSecondEvent ==
    \A i \in Returned :
        handlers[i].loaded.appointment.scheduled =>
            /\ handlers[i].created = {}
            /\ handlers[i].conversation.appointment.eventId = handlers[i].loaded.appointment.eventId
            /\ handlers[i].conversation.appointment.meetLink = handlers[i].loaded.appointment.meetLink
            /\ handlers[i].conversation.appointment.scheduledDate =
                   handlers[i].loaded.appointment.scheduledDate

\* the active documents of a contact
ActiveOf(phoneNumber) ==
    {d \in 1..Len(store) : store[d].phoneNumber = phoneNumber /\ store[d].metadata.isActive}

\* C6: the store never holds two active conversations of one contact, also when
\* two first messages of a contact are handled concurrently.
C6_OneActivePerContact ==
    \A p \in Phones : Cardinality(ActiveOf(p)) <= 1

\* document d is stored with stage ABANDONED by this step
BecomesAbandoned(d) ==
    /\ store'[d].stage = "ABANDONED"
    /\ (d > Len(store) \/ store[d].stage # "ABANDONED")

\* C7: only a step of the idle-cleanup task stores the stage ABANDONED; no step
\* of a turn does, whatever next_stage the oracle gave.
C7_AbandonedOnlyByCleanup ==
    [][\A d \in 1..Len(store') :
          BecomesAbandoned(d) => (cronDue /\ ~cronDue' /\ CronKind(Time) = "cleanup")]_vars

\* C8: every change of a stored conversation's stage goes to a stage of higher
\* rank (ABANDONED ranks last), and the stages COMPLETED and ABANDONED are final.
C8_StageNeverGoesBack ==
    [][\A d \in 1..Len(store) :
          store'[d].stage # store[d].stage =>
              /\ StageRank(store'[d].stage) > StageRank(store[d].stage)
              /\ store[d].stage \notin {"COMPLETED", "ABANDONED"}]_vars

\* C4: when the oracle call fails, processMessageWithAI returns the fallback
\* decision (intent error, no extracted field, the fallback apology, next_stage
\* the current stage, confidence 0, no slot offer, no booking); the turn keeps
\* the stage, the collected fields and the appointment as loaded, in memory and
\* in the store, touches no calendar, and every reply it sends is an apology:
\* the fallback's when the turn succeeds.
C4_FallbackOnOracleFailure ==
    \A i \in HandlerIds :
        handlers[i].oracleFailed =>
            LET h == handlers[i]
                aiResult == processMessageWithAI(h.loaded, FALSE, NoDecision)
                Same(c) == /\ c.stage = h.loaded.stage
                           /\ c.userData.name = h.loaded.userData.name
                           /\ c.userData.function = h.loaded.userData.function
                           /\ c.userData.email = h.loaded.userData.email
                           /\ c.appointment = h.loaded.appointment
            IN  /\ aiResult.intent = "error"
                /\ \A f \in DOMAIN aiResult.extracted_data : ~Truthy(aiResult.extracted_data[f])
                /\ aiResult.response = "fallback"
                /\ aiResult.next_stage = h.loaded.stage
                /\ aiResult.confidence = 0
                /\ ~aiResult.needs_calendar_slots /\ ~aiResult.schedule_meeting
                /\ Same(h.conversation)
                /\ h.pc \notin {"offer", "book", "insert"}
                /\ h.created = {}
                /\ \A k \in 1..Len(h.sent) : h.sent[k] \in {"fallback", "apology"}
                /\ (h.result = "success" => h.sent = <<"fallback">>)
                /\ (h.pc \in {"send", "n8n", "return", "done"} /\ h.docId # 0 => Same(store[h.docId]))

\* the oracle failed on a selection sent at the slot offer; the turn succeeded
C4_Witness ==
    \E i \in Returned :
        /\ handlers[i].oracleFailed
        /\ handlers[i].loaded.stage = "OFERECER_AGENDAMENTOS"
        /\ ParseInt(Trim(handlers[i].messageText)) = 1
        /\ handlers[i].result = "success"
        /\ handlers[i].sent = <<"fallback">>

\* C5: a turn always returns a result to its caller, and unless the transport
\* rejected a send, it has sent at least one reply by then.
C5_AlwaysReplies ==
    \A i \in Returned :
        /\ handlers[i].result \in {"success", "failure"}
        /\ (~handlers[i].sendFault => Len(handlers[i].sent) >= 1)

\* a decision object without a response: the store was written, the reply could
\* not be posted, the apology went out
C5_Witness ==
    \E i \in Returned :
        /\ handlers[i].finalResponse = Undef
        /\ handlers[i].docId # 0
        /\ ~handlers[i].sendFault
        /\ handlers[i].result = "failure"
        /\ handlers[i].sent = <<"apology">>

\* C9: every stored conversation whose appointment status is CONFIRMED has
\* scheduled true and an event id.
C9_ConfirmedIsScheduled ==
    \A d \in 1..Len(store) :
        store[d].appointment.status = "CONFIRMED" =>
            /\ store[d].appointment.scheduled
            /\ store[d].appointment.eventId # NoAppointment.eventId

\* a confirmed appointment is stored and the reminder task has written to it
C9_Witness ==
    \E d \in 1..Len(store) :
        /\ store[d].appointment.status = "CONFIRMED"
        /\ store[d].appointment.remindersSent.day_before

ReminderKinds == {"day_before", "hour_before"}

\* C10: while a stored meeting's remindersSent flag of a kind is true, no step
\* delivers that kind of reminder for the meeting, and the flag stays true as
\* long as the conversation holds that meeting.
C10_ReminderFlagsMonotonic ==
    [][\A d \in 1..Len(store), kind \in ReminderKinds :
          LET a == store[d].appointment
              key == <<a.eventId, kind>>
          IN  a.scheduled /\ a.remindersSent[kind] =>
                 /\ (key \in DOMAIN delivered' =>
                        key \in DOMAIN delivered /\ delivered'[key] = delivered[key])
                 /\ (store'[d].appointment.eventId = a.eventId =>
                        store'[d].appointment.remindersSent[kind])]_vars

\* the second reminder run of the day before a meeting is past its day-before
\* pass; the reminder went out once, in the first run
C10_Witness ==
    \E d \in 1..Len(store) :
        LET a == store[d].appointment
        IN  /\ now = 3
            /\ sweep.pc = "hour_before"
            /\ a.scheduled /\ a.remindersSent.day_before
            /\ a.scheduledDate >= StartOfDay(Time + MinutesPerDay)
            /\ a.scheduledDate <= EndOfDay(Time + MinutesPerDay)
            /\ <<a.eventId, "day_before">> \in DOMAIN delivered
            /\ delivered[<<a.eventId, "day_before">>] = 1

\* C16: both scorers return an integer between 0 and 100 for every conversation,
\* and so is every stored leadScore.
C16_ScoreInRange ==
    \A d \in 1..Len(store) :
        /\ calculateLeadScore(store[d]) \in 0..100
        /\ calculateLeadScoreIndex(store[d]) \in 0..100
        /\ store[d].userData.leadScore \in 0..100

\* a conversation whose uncapped sum is above 100 has been scored 100
C16_Witness ==
    /\ store[1].userData.leadScore = 100
    /\ CountIncoming(store[1].messages) > 10
    /\ store[1].appointment.scheduled
    /\ Truthy(store[1].userData.name) /\ Truthy(store[1].userData.function)
    /\ Truthy(store[1].userData.email)
    /\ store[1].stage = "COMPLETED"

\* conversation c with the three collected fields present
WithFields(c) ==
    [c EXCEPT !.userData.name = "Ana", !.userData.function = "CTO",
              !.userData.email = "ana@x.io"]

\* conversation c with none of the collected fields
WithoutFields(c) ==
    [c EXCEPT !.userData.name = Undef, !.userData.function = Undef,
              !.userData.email = Undef]

\* C17: in each scorer the three collected fields together are worth exactly 50
\* (where the total stays under the cap), the stage contribution never exceeds
\* 15 and does not decrease from a stage to its successor, the appointment is
\* worth 15, and the total is capped at 100.
C17_ReferenceSum ==
    \A d \in 1..Len(store) :
        LET c == store[d]
            unscheduled == [c EXCEPT !.appointment.scheduled = FALSE]
            scheduled == [c EXCEPT !.appointment.scheduled = TRUE]
        IN  /\ calculateLeadScore(WithFields(c)) < 100 =>
                 calculateLeadScore(WithFields(c)) - calculateLeadScore(WithoutFields(c)) = 50
            /\ calculateLeadScoreIndex(WithFields(c)) < 100 =>
                 calculateLeadScoreIndex(WithFields(c))
                     - calculateLeadScoreIndex(WithoutFields(c)) = 50
            /\ StageScore(c.stage) <= 15
            /\ StageScore(CanonicalSuccessor(c.stage)) >= StageScore(c.stage)
                  \/ c.stage \notin Stages \/ c.stage = "ABANDONED"
            /\ calculateLeadScore(scheduled) < 100 =>
                 calculateLeadScore(scheduled) - calculateLeadScore(unscheduled) = 15
            /\ calculateLeadScore(c) <= 100 /\ calculateLeadScoreIndex(c) <= 100

\* C18: a scoring step changes nothing of the conversation but the stored score,
\* and the score of a conversation does not depend on the score stored in it, so
\* scoring again gives the same value.
C18_ScorerIsPure ==
    [][\A d \in 1..Len(store) :
          /\ store'[d] = [store[d] EXCEPT !.userData.leadScore = store'[d].userData.leadScore]
          /\ calculateLeadScore(store'[d]) = calculateLeadScore(store[d])
          /\ calculateLeadScoreIndex(store'[d]) = calculateLeadScoreIndex(store[d])]_vars

\* a conversation that held a stale score has been scored from scratch
C18_Witness ==
    /\ store[1].userData.leadScore = calculateLeadScore(store[1])
    /\ store[1].userData.leadScore \notin {0, 37}
    /\ CountIncoming(store[1].messages) = 3
    /\ store[1].stage = "SOLICITAR_EMAIL"

\* the turn of handler i has written conversation c to the store
Persisted(i) ==
    /\ handlers[i].pc \in {"send", "n8n", "return", "done"}
    /\ ~handlers[i].saveFault
    /\ handlers[i].docId # 0

\* C13: a calendar insert that fails changes nothing of the conversation: the
\* stage, the collected fields and the appointment stay as they were before the
\* booking step (unscheduled and PENDING if the conversation had no meeting), no
\* event exists for the turn, and the reply announces a manual follow-up.
C13_InsertFailureKeepsState ==
    /\ [](\A i \in HandlerIds :
            handlers[i].finalResponse = "booking_problem" =>
                /\ handlers[i].created = {}
                /\ handlers[i].conversation.appointment = handlers[i].loaded.appointment
                /\ (~handlers[i].loaded.appointment.scheduled =>
                       /\ ~handlers[i].conversation.appointment.scheduled
                       /\ handlers[i].conversation.appointment.status = "PENDING")
                /\ (handlers[i].result = "success" => handlers[i].sent = <<"booking_problem">>)
                /\ (Persisted(i) =>
                       store[handlers[i].docId].appointment = handlers[i].loaded.appointment))
    /\ [][\A i \in HandlerIds :
            handlers[i].pc = "insert" /\ handlers'[i] # handlers[i] /\ events' = events =>
                /\ handlers'[i].conversation = handlers[i].conversation
                /\ handlers'[i].finalResponse = "booking_problem"
                /\ handlers'[i].pc = "save"]_vars

\* after a turn whose insert failed, a later selection of the contact has booked
C13_Witness ==
    \E i \in Returned :
        /\ handlers[i].created # {}
        /\ handlers[i].result = "success"
        /\ \E k \in 1..Len(handlers[i].loaded.messages) :
              handlers[i].loaded.messages[k].content = "booking_problem"

\* the slot list the allocator returns while event e is not yet in the calendar
SlotsBefore(e) ==
    getAvailableSlots(
        {[start |-> events[j].start, end |-> events[j].end] : j \in 1..(e - 1)} \cup external,
        Time, TRUE)

\* C14: a turn that books on the text k has created the event of the k-th slot
\* of the list (index k - 1), holds and stores the appointment of that event
\* (scheduled, event id, link, the slot's date, CONFIRMED) and ends at the stage
\* AGENDAMENTO_CONFIRMADO.
C14_BooksSelectedSlot ==
    \A i \in HandlerIds : \A e \in handlers[i].created :
        LET h == handlers[i]
            k == ParseInt(Trim(h.messageText))
            appointment == [scheduled |-> TRUE, eventId |-> e, meetLink |-> e,
                            scheduledDate |-> events[e].start, status |-> "CONFIRMED",
                            remindersSent |-> [day_before |-> FALSE, hour_before |-> FALSE]]
        IN  /\ h.created = {e}
            /\ k \in 1..Len(SlotsBefore(e))
            /\ events[e].start = SlotsBefore(e)[k]
            /\ h.conversation.appointment = appointment
            /\ h.conversation.stage = "AGENDAMENTO_CONFIRMADO"
            /\ (Persisted(i) =>
                   /\ store[h.docId].appointment = appointment
                   /\ store[h.docId].stage = "AGENDAMENTO_CONFIRMADO")

\* the text "2" at the slot offer has booked the second slot, Tuesday 10:30
C14_Witness ==
    \E i \in Returned :
        /\ handlers[i].messageText = <<"2">>
        /\ handlers[i].loaded.stage = "OFERECER_AGENDAMENTOS"
        /\ handlers[i].result = "success"
        /\ Persisted(i)
        /\ store[handlers[i].docId].appointment.scheduledDate = MinutesPerDay + 10 * 60 + 30

\* the turn of handler i went into the booking step with a text that is no index
\* of the slot list
InvalidSelection(i) ==
    /\ handlers[i].afterOffer = "book"
    /\ handlers[i].pc \notin {"idle", "offer", "book"}
    /\ handlers[i].created = {}
    /\ ParseInt(Trim(handlers[i].messageText))
          \notin 1..Len(getAvailableSlots(BusyTimes, Time, TRUE))

\* C15: a booking step on a text that is no index of the slot list creates no
\* event, keeps appointment and stage, answers with the re-prompt, and the turn
\* goes on to save and send: it fails only if the save or the send does.
C15_InvalidIndexReprompts ==
    \A i \in HandlerIds :
        (/\ handlers[i].afterOffer = "book"
         /\ handlers[i].pc \notin {"idle", "offer", "book"}
         /\ ParseInt(Trim(handlers[i].messageText))
              \notin 1..Len(SlotsBefore(Len(events) + 1 - Cardinality(handlers[i].created))))
        => /\ InvalidSelection(i)
           /\ handlers[i].pc # "insert"
           /\ handlers[i].finalResponse = "invalid_option"
           /\ handlers[i].conversation.appointment = handlers[i].loaded.appointment
           /\ handlers[i].conversation.stage = handlers[i].loaded.stage
           /\ (handlers[i].pc = "catch" \/ handlers[i].result = "failure" =>
                  handlers[i].saveFault \/ handlers[i].sendFault)
           /\ (handlers[i].result = "success" => handlers[i].sent = <<"invalid_option">>)

\* the text "0" at the slot offer was answered with the re-prompt
C15_Witness ==
    \E i \in Returned :
        /\ InvalidSelection(i)
        /\ handlers[i].messageText = <<"0">>
        /\ handlers[i].loaded.stage = "OFERECER_AGENDAMENTOS"
        /\ Persisted(i)
        /\ handlers[i].sent = <<"invalid_option">>

\* C19: the leadScore of every stored conversation is calculateLeadScore of that
\* stored conversation.
C19_StoredScoreIsCurrent ==
    \A d \in 1..Len(store) :
        store[d].userData.leadScore = calculateLeadScore(store[d])

\* the turns of new contacts that returned after the decision "go to
\* SOLICITAR_NOME" with nothing extracted
GreetingTurns ==
    {i \in Returned : /\ handlers[i].loaded.messages = <<>>
                      /\ handlers[i].result = "success"
                      /\ ~handlers[i].oracleFailed
                      /\ handlers[i].created = {}
                      /\ handlers[i].finalResponse = "ai"
                      /\ handlers[i].conversation.stage = "SOLICITAR_NOME"
                      /\ ~Truthy(handlers[i].conversation.userData.name)}

\* C20: after the greeting turn of a new contact the stored conversation has the
\* stage SOLICITAR_NOME, leadScore 1 and one outgoing entry in its log.
C20_GreetingExample ==
    \A i \in GreetingTurns :
        LET c == store[handlers[i].docId]
        IN  /\ c.stage = "SOLICITAR_NOME"
            /\ c.userData.leadScore = 1
            /\ Cardinality({k \in 1..Len(c.messages) : c.messages[k].direction = "OUTGOING"}) = 1

\* the reminders of a kind delivered for a calendar event
DeliveredCount(key) == IF key \in DOMAIN delivered THEN delivered[key] ELSE 0

\* the reminder task is at a meeting of one of its two loops
AtMeeting == sweep.pc \in ReminderKinds /\ sweep.meetings # <<>>

\* C11: a reminder flag becomes true in the store only in the step that
\* delivered that reminder of the meeting at hand; an iteration that delivers
\* nothing leaves the store as it is and goes on to the next meeting of the list.
C11_FlagFollowsSend ==
    [][/\ \A d \in 1..Len(store), kind \in ReminderKinds :
             (/\ ~store[d].appointment.remindersSent[kind]
              /\ store'[d].appointment.remindersSent[kind])
             => /\ AtMeeting
                /\ sweep.pc = kind
                /\ Head(sweep.meetings).docId = d
                /\ <<Head(sweep.meetings).eventId, kind>> \in DOMAIN delivered'
                /\ delivered'[<<Head(sweep.meetings).eventId, kind>>]
                     = DeliveredCount(<<Head(sweep.meetings).eventId, kind>>) + 1
       /\ (AtMeeting /\ delivered' = delivered)
             => /\ store' = store
                /\ sweep' = [sweep EXCEPT !.meetings = Tail(@)]]_vars

\* in the morning run the send to the first contact failed and the second
\* contact was reminded; the afternoon run has selected the first contact again
C11_Witness ==
    /\ now = 3
    /\ sweep.pc = "day_before"
    /\ Len(sweep.meetings) = 1
    /\ Head(sweep.meetings).docId = 1
    /\ ~store[1].appointment.remindersSent.day_before
    /\ DeliveredCount(<<store[1].appointment.eventId, "day_before">>) = 0
    /\ store[2].appointment.remindersSent.day_before
    /\ DeliveredCount(<<store[2].appointment.eventId, "day_before">>) = 1

\* C12: no reminder of a kind is delivered more than once for a meeting.
C12_AtMostOneReminder ==
    \A key \in DOMAIN delivered : delivered[key] <= 1

\* the pairs of turns that loaded the same stored document in the same state, so
\* that neither saw the other's writes, and both returned successfully
RacingPairs ==
    {p \in Returned \X Returned :
        /\ p[1] # p[2]
        /\ handlers[p[1]].loaded = handlers[p[2]].loaded
        /\ FindActive(handlers[p[1]].phoneNumber) # 0
        /\ handlers[p[1]].docId = handlers[p[2]].docId
        /\ handlers[p[1]].result = "success"
        /\ handlers[p[2]].result = "success"}

\* C21: after two turns that loaded the same conversation have both saved, the
\* stored conversation holds both inbound messages and the stage and appointment
\* each of them wrote: no write of one replaces the other's stage or appointment.
C21_NoLostUpdate ==
    \A p \in RacingPairs :
        LET h == handlers[p[1]]
            stored == store[h.docId]
        IN  /\ \E k \in 1..Len(stored.messages) : stored.messages[k].messageId = h.messageId
            /\ (h.conversation.appointment # h.loaded.appointment =>
                   stored.appointment.eventId = h.conversation.appointment.eventId)
            /\ (h.conversation.stage # h.loaded.stage => stored.stage = h.conversation.stage)

\* C23: a stored conversation at the stage COMPLETED is inactive, so the
\* contact's next message starts a new conversation.
C23_CompletedIsInactive ==
    \A d \in 1..Len(store) : store[d].stage = "COMPLETED" => ~store[d].metadata.isActive

\* the text is a bare positive integer
BareIndex(text) ==
    /\ text # <<>>
    /\ \A k \in 1..Len(text) : text[k] \in Digits
    /\ ParseInt(text) > 0

\* C30: at the slot offer, a text that is a bare index of the slot list takes the
\* turn to the booking step, whatever the decision of the turn is (the fallback
\* decision included).
C30_IndexAlwaysBooks ==
    \A i \in HandlerIds :
        (/\ handlers[i].pc \notin {"idle", "offer"}
         /\ handlers[i].loaded.stage = "OFERECER_AGENDAMENTOS"
         /\ handlers[i].loaded.messages # <<>>
         /\ BareIndex(handlers[i].messageText)
         /\ ParseInt(handlers[i].messageText) <= Len(FirstOffer))
        => handlers[i].afterOffer = "book"

\* the forward step of handler i ends with a failed post
ForwardFails(i) ==
    /\ handlers[i].pc = "n8n"
    /\ handlers'[i].pc # "n8n"
    /\ ~handlers'[i].conversation.n8nData.sent

\* C26: a forward whose post fails leaves every stored conversation as it was
\* but for the forwarding record of the turn's own document (stage, fields,
\* appointment, log and metadata keep what the save before the send wrote), the
\* reply has been sent exactly once, nothing more is sent, and the turn goes on to
\* return success.
C26_ForwardFailureKeepsState ==
    /\ [][\A i \in HandlerIds :
            ForwardFails(i) =>
                /\ Len(store') = Len(store)
                /\ \A d \in 1..Len(store) :
                      /\ [store'[d] EXCEPT !.n8nData = store[d].n8nData] = store[d]
                      /\ (d # handlers[i].docId => store'[d] = store[d])
                /\ store[handlers[i].docId].stage = handlers[i].conversation.stage
                /\ store[handlers[i].docId].appointment = handlers[i].conversation.appointment
                /\ handlers[i].sent = <<handlers[i].finalResponse>>
                /\ handlers'[i].sent = handlers[i].sent
                /\ handlers'[i].pc = "return"]_vars
    /\ [](\A i \in Returned :
            (handlers[i].sent # <<>> /\ handlers[i].sent[1] # "apology") =>
                handlers[i].result = "success")

\* a booking turn whose forward failed has returned success; the store holds the
\* booking and the record of the failed forward
C26_Witness ==
    \E i \in Returned :
        /\ handlers[i].result = "success"
        /\ handlers[i].created # {}
        /\ handlers[i].saves = 2
        /\ store[handlers[i].docId].n8nData = [sent |-> FALSE, lastSent |-> Time]
        /\ store[handlers[i].docId].stage = "AGENDAMENTO_CONFIRMADO"
        /\ handlers[i].sent = <<"booked">>

\* handler i starts a turn in this step and its findOne succeeds
Loads(i) ==
    /\ handlers[i].pc = "idle"
    /\ handlers'[i].pc # "idle"
    /\ handlers'[i].loaded.phoneNumber # Undef

\* the turn of handler i runs on a conversation it created
OnNewConversation(i) ==
    /\ handlers[i].pc # "idle"
    /\ handlers[i].loaded.phoneNumber = handlers[i].phoneNumber
    /\ handlers[i].loaded.messages = <<>>

\* C24: a turn of a contact with no active conversation starts on a new
\* conversation (stage INITIAL, no field, score 0, appointment unscheduled and
\* PENDING, empty log, active, started now), a turn of a contact with an active
\* conversation starts on that one; no step of a turn on a new conversation
\* changes or removes an earlier stored conversation, and its save adds the new
\* one.
C24_NewConversationForInactiveContact ==
    /\ [][\A i \in HandlerIds :
            Loads(i) =>
                LET p == handlers'[i].phoneNumber
                    c == handlers'[i].loaded
                IN  IF FindActive(p) # 0
                       THEN c = store[FindActive(p)] /\ c.messages # <<>>
                       ELSE /\ c.phoneNumber = p
                            /\ c.stage = "INITIAL"
                            /\ c.userData = [name |-> Undef, function |-> Undef,
                                             email |-> Undef, leadScore |-> 0]
                            /\ ~c.appointment.scheduled
                            /\ c.appointment.status = "PENDING"
                            /\ c.appointment.eventId = 0
                            /\ c.messages = <<>>
                            /\ c.metadata = [lastActivity |-> Time, conversationStarted |-> Time,
                                             isActive |-> TRUE]]_vars
    /\ [][\A i \in HandlerIds :
            OnNewConversation(i) /\ handlers'[i] # handlers[i] =>
                /\ \A d \in 1..Len(store) :
                      /\ d <= Len(store')
                      /\ (d # handlers[i].docId => store'[d] = store[d])
                      /\ store'[d].phoneNumber = store[d].phoneNumber
                /\ Len(store') \in {Len(store), Len(store) + 1}
                /\ (Len(store') = Len(store) + 1 =>
                       /\ handlers[i].pc = "save"
                       /\ store'[Len(store')].phoneNumber = handlers[i].phoneNumber
                       /\ store'[Len(store')].metadata.isActive
                       /\ handlers'[i].docId = Len(store'))]_vars

\* the contact's first conversation was abandoned by the cleanup task; the next
\* message has started a second conversation, stored beside the first
C24_Witness ==
    \E i \in Returned :
        /\ OnNewConversation(i)
        /\ handlers[i].result = "success"
        /\ Len(store) = 2
        /\ store[1].phoneNumber = store[2].phoneNumber
        /\ store[1].stage = "ABANDONED"
        /\ ~store[1].metadata.isActive
        /\ store[1].messages # <<>>
        /\ store[2].metadata.isActive
        /\ handlers[i].docId = 2

\* this step is a run of the cleanup task
CleanupRuns ==
    /\ cronDue
    /\ ~cronDue'
    /\ CronKind(Time) = "cleanup"

\* C27: a run of the cleanup task that updates the store sets stage ABANDONED and
\* isActive false, and nothing else, on exactly the conversations that are
\* active, had their last activity more than seven days ago and are at a stage
\* other than COMPLETED, ABANDONED and AGENDAMENTO_CONFIRMADO; every other
\* conversation is as it was. A run whose update fails changes nothing.
C27_CleanupSweepsExactlyIdle ==
    [][CleanupRuns =>
          \/ store' = store
          \/ /\ Len(store') = Len(store)
             /\ \A d \in 1..Len(store) :
                   IF /\ store[d].metadata.isActive
                      /\ store[d].metadata.lastActivity < Time - 7 * 24 * 60
                      /\ store[d].stage \notin {"COMPLETED", "ABANDONED", "AGENDAMENTO_CONFIRMADO"}
                      THEN /\ store'[d].stage = "ABANDONED"
                           /\ ~store'[d].metadata.isActive
                           /\ [store'[d] EXCEPT !.stage = store[d].stage,
                                                !.metadata.isActive = TRUE] = store[d]
                      ELSE store'[d] = store[d]]_vars

\* after the run of the second Tuesday, the conversation with the confirmed
\* meeting is as it was and the other one, idle for eight days, is abandoned
C27_Witness ==
    /\ now = 6
    /\ ~cronDue
    /\ Len(store) = 2
    /\ store[1].stage = "AGENDAMENTO_CONFIRMADO"
    /\ store[1].metadata.isActive
    /\ store[1].metadata.lastActivity < Time - 7 * 24 * 60
    /\ store[2] = [ChatTurn(NewConversation("5522", Instants[1]), 3) EXCEPT
                      !.stage = "ABANDONED", !.metadata.isActive = FALSE]

\* the offer step of handler i runs in this step
Offers(i) ==
    /\ handlers[i].pc = "offer"
    /\ handlers'[i].pc # "offer"

\* C25: the list getAvailableSlots returns for an offer has at most six slots, in
\* strictly increasing order, each after the time of the call, none on a Saturday
\* or a Sunday, none whose window of meetingDuration minutes overlaps a busy
\* interval of the calendar; a failing lookup gives the empty list, and the turn
\* goes on with the reply that no slot is free instead of going to the catch block.
C25_OfferedSlotsAreFree ==
    [][\A i \in HandlerIds :
          Offers(i) =>
              LET slots == handlers'[i].offered
              IN  /\ Len(slots) <= 6
                  /\ \A k \in 1..Len(slots) :
                        /\ (k > 1 => slots[k - 1] < slots[k])
                        /\ slots[k] > Time
                        /\ ((slots[k] \div 1440) + 1) % 7 \notin {0, 6}
                        /\ \A b \in BusyTimes :
                              ~(slots[k] < b.end /\ slots[k] + 30 > b.start)
                  /\ handlers'[i].pc = handlers[i].afterOffer
                  /\ handlers'[i].finalResponse = IF slots = <<>> THEN "no_slots" ELSE "slots"]_vars

\* with the calendar busy from Tuesday to Friday, the offer of Monday 08:00
\* skips the weekend and starts on the next Monday at 9:30, after the event of
\* that morning
C25_Witness ==
    \E i \in HandlerIds :
        /\ now = 1
        /\ handlers[i].finalResponse = "slots"
        /\ Len(handlers[i].offered) = 6
        /\ handlers[i].offered[1] = 7 * 1440 + 9 * 60 + 30
        /\ Cardinality(external) >= 2

\* C28: a turn that returns successfully has saved the conversation twice, once
\* before the reply is sent and once after; a turn whose reply could not be sent
\* has stored its stage, its appointment and the log entry of the reply.
C28_SavedBeforeAndAfterSend ==
    \A i \in Returned :
        /\ (handlers[i].result = "success" => handlers[i].saves = 2)
        /\ (handlers[i].sendFault /\ handlers[i].saves > 0 /\ handlers[i].docId # 0 =>
               \E k \in 1..Len(store[handlers[i].docId].messages) :
                   /\ store[handlers[i].docId].messages[k].direction = "OUTGOING"
                   /\ store[handlers[i].docId].messages[k].content = handlers[i].finalResponse)

\* the list of the last offer in a log: the one the contact was sent most recently
RECURSIVE LastOffered(_)
LastOffered(messages) ==
    IF messages = <<>> THEN <<>>
    ELSE IF messages[Len(messages)].slots # <<>> THEN messages[Len(messages)].slots
    ELSE LastOffered(SubSeq(messages, 1, Len(messages) - 1))

\* C29: the event a turn creates on the text k starts at the k-th slot of the
\* list last offered to the contact, as stored in the log the turn loaded,
\* whatever time has passed and whatever the calendar holds since that offer.
C29_BooksFromOfferedList ==
    \A i \in HandlerIds : \A e \in handlers[i].created :
        LET offered == LastOffered(handlers[i].loaded.messages)
            k == ParseInt(Trim(handlers[i].messageText))
        IN  /\ k \in 1..Len(offered)
            /\ events[e].start = offered[k]

\* the request whose callback started the turn of handler i
RequestOf(i) == webhook.scheduled[handlers[i].messageId].request

\* this step is the handler of a request with a non-empty entry list
PostsValid ==
    /\ Len(webhook'.acks) = Len(webhook.acks) + 1
    /\ webhook'.acks[Len(webhook'.acks)] # 400

\* C22: a request that passes validation is answered 200 in the step that
\* registers its callbacks, a step in which no turn starts or moves; so every
\* turn runs for a request that has been answered 200, and no step of a turn,
\* failed or not, changes the answer of a request.
C22_AckBeforeProcessing ==
    /\ [](\A i \in HandlerIds :
            handlers[i].pc # "idle" => webhook.acks[RequestOf(i)] = 200)
    /\ [][PostsValid =>
            /\ webhook'.acks[Len(webhook'.acks)] = 200
            /\ handlers' = handlers
            /\ received' = received
            /\ store' = store
            /\ \A k \in 1..Len(webhook'.scheduled) :
                  k > Len(webhook.scheduled) =>
                      /\ webhook'.scheduled[k].request = Len(webhook'.acks)
                      /\ k > received]_vars
    /\ [][\A r \in 1..Len(webhook.acks) :
            r <= Len(webhook'.acks) /\ webhook'.acks[r] = webhook.acks[r]]_vars

\* a turn of an acknowledged request has failed: its findOne threw and the
\* apology could not be sent
C22_Witness ==
    \E i \in Returned :
        /\ handlers[i].result = "failure"
        /\ handlers[i].sendFault
        /\ handlers[i].sent = <<>>
        /\ webhook.acks[RequestOf(i)] = 200

\* C34: a stored conversation is inactive exactly when its stage is ABANDONED,
\* also when a turn that loaded it before a cleanup run saves after that run.
C34_AbandonedIffInactive ==
    \A d \in 1..Len(store) :
        store[d].metadata.isActive = (store[d].stage # "ABANDONED")

\* C37: once no turn is in flight, every event of the calendar is the event of a
\* stored conversation's appointment.
C37_EveryEventRecorded ==
    (\A i \in HandlerIds : handlers[i].pc \in {"idle", "done"}) =>
        \A e \in 1..Len(events) :
            \E d \in 1..Len(store) :
                /\ store[d].appointment.scheduled
                /\ store[d].appointment.eventId = events[e].id

\* the log of stored document d before this step; empty for a document the step
\* inserts
LogBefore(d) == IF d <= Len(store) THEN store[d].messages ELSE <<>>

\* what this step appends to the log of stored document d
Appended(d) ==
    SubSeq(store'[d].messages, Len(LogBefore(d)) + 1, Len(store'[d].messages))

Applied(i) ==
    /\ handlers[i].pc # "idle"
    /\ handlers[i].loaded.phoneNumber = handlers[i].phoneNumber

\* the value a field holds after a decision that extracted v for it: v when v is
\* a non-empty string other than 'null', the value before the turn otherwise
Overwritten(before, v) == IF v \in {Undef, "", "null"} THEN before ELSE v

Redelivered(i) ==
    /\ handlers[i].pc # "idle"
    /\ handlers[i].loaded.phoneNumber = handlers[i].phoneNumber
    /\ \E k \in 1..Len(handlers[i].loaded.messages) :
          /\ handlers[i].loaded.messages[k].direction = "INCOMING"
          /\ handlers[i].loaded.messages[k].messageId = handlers[i].messageId

\* C39: a turn on a message delivered a second time appends no second inbound
\* entry with that messageId, leaves the stage as loaded and sends no reply.
C39_RedeliveryHarmless ==
    \A i \in HandlerIds :
        Redelivered(i) =>
            /\ handlers[i].conversation.messages = handlers[i].loaded.messages
            /\ handlers[i].conversation.stage = handlers[i].loaded.stage
            /\ handlers[i].sent = <<>>

\* the list handler i got from getAvailableSlots for its offer
OfferedBy(i) == handlers[i].offered

MinuteOfDay(t) == t % MinutesPerDay

\* C31: any two slots of one offered list that are on the same day start at least
\* meetingDuration + bufferMinutes apart.
C31_StartsStepByDurationPlusBuffer ==
    \A i \in HandlerIds :
        \A a, b \in 1..Len(OfferedBy(i)) :
            (a < b /\ StartOfDay(OfferedBy(i)[a]) = StartOfDay(OfferedBy(i)[b]))
                => OfferedBy(i)[b] - OfferedBy(i)[a] >= meetingDuration + bufferMinutes

\* C38: the windows of one offered list do not overlap each other, and each lies
\* inside the business hours of its day.
C38_WindowsDisjointInsideHours ==
    \A i \in HandlerIds :
        /\ \A a, b \in 1..Len(OfferedBy(i)) :
              a < b => OfferedBy(i)[a] + meetingDuration <= OfferedBy(i)[b]
        /\ \A a \in 1..Len(OfferedBy(i)) :
              /\ MinuteOfDay(OfferedBy(i)[a]) >= businessStart * 60
              /\ MinuteOfDay(OfferedBy(i)[a]) + meetingDuration <= businessEnd * 60

\* handler i of index.js is in a turn whose completion succeeded
Completed(i) ==
    /\ handlers[i].pc # "idle"
    /\ handlers[i].loaded.phoneNumber = handlers[i].phoneNumber
    /\ ~handlers[i].oracleFailed

\* C40: in the engine of index.js, a turn whose completion succeeded with the
\* canonical successor as next_stage leaves the conversation at that successor.
C40_IndexAppliesDecision ==
    \A i \in HandlerIds :
        Completed(i) =>
            handlers[i].conversation.stage = getNextStage(handlers[i].loaded.stage)

\* what call r read from the conversations
ReadBy(r) ==
    [conversations |-> analytics.runs[r].conversations,
     stageCount |-> analytics.runs[r].stageCount]

\* call r ends with its save
AnalyticsSaves(r) ==
    /\ analytics.runs[r].pc = "save"
    /\ analytics'.runs[r].pc = "idle"

=============================================================================
